---- MODULE Spec2Model ----
(***************************************************************************)
(* The scoring and gap-analysis core of the career-guidance backend:       *)
(* CareerMatchAgent, SkillGapAgent and ResourceSuggestAgent                *)
(* (backend/agents).                                                       *)
(*                                                                         *)
(* Strings are sequences of code points, so that str.lower(), str.split(), *)
(* the substring test `a in b` and string comparison are computed.         *)
(* Python floats are exact rationals [n, d]; round() rounds half to even.  *)
(***************************************************************************)
EXTENDS Integers, Sequences, FiniteSets, Bags, TLC

VARIABLES
    user_profile,      \* the profile a request carries
    pc,                \* position of the running request
    career,            \* the career of the latest _calculate_match_score call
    score,             \* what the latest _calculate_match_score call returned
    first,             \* the first call's career and result (history)
    calls,             \* number of _calculate_match_score calls made so far
    n_scored,          \* CareerMatchAgent._process: candidates looped over
    career_matches,    \* CareerMatchAgent._process: local list career_matches
    result,            \* CareerMatchAgent._process: the result dict
    target_career,     \* input_data.data["target_career"] of a skill-gap request
    skill_proficiency, \* SkillGapAgent._process: its local dict user_skills
    output,            \* AgentOutput of an agent's execute
    request,           \* what the execute call that made output was given (history)
    skill_gaps,        \* the list handed to _create_learning_roadmap
    learning_roadmap,  \* what _create_learning_roadmap returned
    unranked,          \* the resource lists as they were before the first ranking (history)
    resources,         \* the result dict of ResourceSuggestAgent._process
    passes             \* number of _rank_and_deduplicate_resources calls made

vars == <<user_profile, pc, career, score, first, calls, n_scored,
          career_matches, result, target_career, skill_proficiency, output, request,
          skill_gaps,
          learning_roadmap, unranked, resources, passes>>

\* Python's None (a record, so that it compares with the dicts it stands in for)
None == [none |-> TRUE]

scoreVars == <<career, score, first, calls>>
matchVars == <<n_scored, career_matches, result>>
gapVars == <<target_career, skill_proficiency, output, request>>
roadmapVars == <<skill_gaps, learning_roadmap>>
rankVars == <<unranked, resources, passes>>

----------------------------------------------------------------------------
(* Numbers *)

Abs(x) == IF x < 0 THEN -x ELSE x

RECURSIVE GCD(_, _)
GCD(a, b) == IF b = 0 THEN a ELSE GCD(b, a % b)

\* The rational n/d (d > 0) in lowest terms.
Rat(n, d) == LET g == GCD(Abs(n), d) IN [n |-> n \div g, d |-> d \div g]

Num(k) == Rat(k, 1)

RAdd(a, b) == Rat(a.n * b.d + b.n * a.d, a.d * b.d)
RSub(a, b) == Rat(a.n * b.d - b.n * a.d, a.d * b.d)
RMul(a, b) == Rat(a.n * b.n, a.d * b.d)
RDiv(a, b) == Rat(a.n * b.d, a.d * b.n)
RLt(a, b) == a.n * b.d < b.n * a.d
RLe(a, b) == a.n * b.d <= b.n * a.d
RMin(a, b) == IF RLe(a, b) THEN a ELSE b
RMax(a, b) == IF RLe(b, a) THEN a ELSE b

Pow10(k) == IF k = 0 THEN 1 ELSE IF k = 1 THEN 10 ELSE IF k = 2 THEN 100 ELSE 1000

\* round(x, ndigits): to the nearest multiple of 10^-ndigits, ties to even.
Round(x, ndigits) ==
    LET scale == Pow10(ndigits)
        num == x.n * scale
        q == num \div x.d
        r == num % x.d
        k == IF 2 * r > x.d \/ (2 * r = x.d /\ q % 2 = 1) THEN q + 1 ELSE q
    IN Rat(k, scale)

Min(a, b) == IF a <= b THEN a ELSE b
Max(a, b) == IF a >= b THEN a ELSE b

----------------------------------------------------------------------------
(* Strings *)

IsUpper(c) == c >= 65 /\ c <= 90
IsSpace(c) == c \in {9, 10, 11, 12, 13, 32}

\* str.lower()
Lower(s) == [i \in 1..Len(s) |-> IF IsUpper(s[i]) THEN s[i] + 32 ELSE s[i]]

IsLowerCase(c) == c >= 97 /\ c <= 122
IsAlpha(c) == IsUpper(c) \/ IsLowerCase(c)

\* str.title(): each word's first letter upper-cased, its other letters lower-cased
Title(s) ==
    [i \in 1..Len(s) |->
        IF i = 1 \/ ~IsAlpha(s[i - 1])
        THEN IF IsLowerCase(s[i]) THEN s[i] - 32 ELSE s[i]
        ELSE IF IsUpper(s[i]) THEN s[i] + 32 ELSE s[i]]

\* `w in s` for strings
IsSubstring(w, s) ==
    \E i \in 0..(Len(s) - Len(w)) : SubSeq(s, i + 1, i + Len(w)) = w

RECURSIVE SplitAcc(_, _, _, _)
SplitAcc(s, i, cur, acc) ==
    IF i > Len(s)
    THEN IF cur = << >> THEN acc ELSE Append(acc, cur)
    ELSE IF IsSpace(s[i])
         THEN SplitAcc(s, i + 1, << >>, IF cur = << >> THEN acc ELSE Append(acc, cur))
         ELSE SplitAcc(s, i + 1, Append(cur, s[i]), acc)

\* str.split(): the whitespace-separated words
Split(s) == SplitAcc(s, 1, << >>, << >>)

\* xs[:n]
Take(xs, n) == SubSeq(xs, 1, Min(Len(xs), n))
\* xs[n:]
Drop(xs, n) == SubSeq(xs, n + 1, Len(xs))

Range(xs) == {xs[i] : i \in DOMAIN xs}

\* variant: set(xs), the entries as spelled
LowerSet_Cased(xs) == {xs[i] : i \in DOMAIN xs}

\* set(x.lower() for x in xs)
LowerSet(xs) == {Lower(xs[i]) : i \in DOMAIN xs}

\* the strings of the inputs, as sequences of code points

\* ""
Str_empty == << >>

\* "python"
Str_python == <<112, 121, 116, 104, 111, 110>>

\* "Python"
Str_Python == <<80, 121, 116, 104, 111, 110>>

\* "sql"
Str_sql == <<115, 113, 108>>

\* "SQL"
Str_SQL == <<83, 81, 76>>

\* "react"
Str_react == <<114, 101, 97, 99, 116>>

\* "communication"
Str_communication == <<99, 111, 109, 109, 117, 110, 105, 99, 97, 116, 105, 111, 110>>

\* "ai"
Str_ai == <<97, 105>>

\* "java"
Str_java == <<106, 97, 118, 97>>

\* "programming"
Str_programming == <<112, 114, 111, 103, 114, 97, 109, 109, 105, 110, 103>>

\* "coding"
Str_coding == <<99, 111, 100, 105, 110, 103>>

\* "javascript"
Str_javascript == <<106, 97, 118, 97, 115, 99, 114, 105, 112, 116>>

\* "leadership"
Str_leadership == <<108, 101, 97, 100, 101, 114, 115, 104, 105, 112>>

\* "teamwork"
Str_teamwork == <<116, 101, 97, 109, 119, 111, 114, 107>>

\* "machine learning"
Str_machine_learning == <<109, 97, 99, 104, 105, 110, 101, 32, 108, 101, 97, 114, 110, 105, 110, 103>>

\* "blockchain"
Str_blockchain == <<98, 108, 111, 99, 107, 99, 104, 97, 105, 110>>

\* "management"
Str_management == <<109, 97, 110, 97, 103, 101, 109, 101, 110, 116>>

\* "english"
Str_english == <<101, 110, 103, 108, 105, 115, 104>>

\* "hindi"
Str_hindi == <<104, 105, 110, 100, 105>>

\* "spanish"
Str_spanish == <<115, 112, 97, 110, 105, 115, 104>>

\* "data"
Str_data == <<100, 97, 116, 97>>

\* "web development"
Str_web_development == <<119, 101, 98, 32, 100, 101, 118, 101, 108, 111, 112, 109, 101, 110, 116>>

\* "Music"
Str_Music == <<77, 117, 115, 105, 99>>

\* "technology"
Str_technology == <<116, 101, 99, 104, 110, 111, 108, 111, 103, 121>>

\* "Technology"
Str_Technology == <<84, 101, 99, 104, 110, 111, 108, 111, 103, 121>>

\* "finance"
Str_finance == <<102, 105, 110, 97, 110, 99, 101>>

\* "healthcare"
Str_healthcare == <<104, 101, 97, 108, 116, 104, 99, 97, 114, 101>>

\* "high school"
Str_high_school == <<104, 105, 103, 104, 32, 115, 99, 104, 111, 111, 108>>

\* "high-school"
Str_high_hyphen_school == <<104, 105, 103, 104, 45, 115, 99, 104, 111, 111, 108>>

\* "diploma"
Str_diploma == <<100, 105, 112, 108, 111, 109, 97>>

\* "bachelor"
Str_bachelor == <<98, 97, 99, 104, 101, 108, 111, 114>>

\* "Bachelor"
Str_Bachelor == <<66, 97, 99, 104, 101, 108, 111, 114>>

\* "master"
Str_master == <<109, 97, 115, 116, 101, 114>>

\* "Master"
Str_Master == <<77, 97, 115, 116, 101, 114>>

\* "phd"
Str_phd == <<112, 104, 100>>

\* "mba"
Str_mba == <<109, 98, 97>>

\* "entry"
Str_entry == <<101, 110, 116, 114, 121>>

\* "mid"
Str_mid == <<109, 105, 100>>

\* "senior"
Str_senior == <<115, 101, 110, 105, 111, 114>>

\* "executive"
Str_executive == <<101, 120, 101, 99, 117, 116, 105, 118, 101>>

\* "Data Analyst"
Str_Data_Analyst == <<68, 97, 116, 97, 32, 65, 110, 97, 108, 121, 115, 116>>

\* "Web Developer"
Str_Web_Developer == <<87, 101, 98, 32, 68, 101, 118, 101, 108, 111, 112, 101, 114>>

\* "Bank Manager"
Str_Bank_Manager == <<66, 97, 110, 107, 32, 77, 97, 110, 97, 103, 101, 114>>

\* "Analyse data sets"
Str_desc_data == <<65, 110, 97, 108, 121, 115, 101, 32, 100, 97, 116, 97, 32, 115, 101, 116, 115>>

\* "Build web sites"
Str_desc_web == <<66, 117, 105, 108, 100, 32, 119, 101, 98, 32, 115, 105, 116, 101, 115>>

\* "Lead branch staff"
Str_desc_bank == <<76, 101, 97, 100, 32, 98, 114, 97, 110, 99, 104, 32, 115, 116, 97, 102, 102>>

\* "Learn "
Str_Learn == <<76, 101, 97, 114, 110, 32>>

\* "git"
Str_git == <<103, 105, 116>>

\* "email"
Str_email == <<101, 109, 97, 105, 108>>

\* "five"
Str_five == <<102, 105, 118, 101>>

\* "a"
Str_alpha == <<97>>

\* "b"
Str_beta == <<98>>

\* "c"
Str_gamma == <<99>>

\* "d"
Str_delta == <<100>>

\* "e"
Str_epsilon == <<101>>

\* "f"
Str_zeta == <<102>>

\* "Py"
Str_Py == <<80, 121>>

\* "py"
Str_py == <<112, 121>>

\* "Go"
Str_Go == <<71, 111>>

\* "X"
Str_X == <<88>>

\* "x"
Str_x == <<120>>

\* "Y"
Str_Y == <<89>>

\* "Z"
Str_Z == <<90>>


----------------------------------------------------------------------------
(* CareerMatchAgent._calculate_match_score *)

\* variant: skill_score is not reset: it starts from the previous call's value
InitialSkillScore_Leaked ==
    IF score = None THEN Num(0) ELSE score.component_scores.skills

\* skill_score = 0.0 before the skill branch
InitialSkillScore == Num(0)

\* variant: both ratios count the listed skills the user lacks
SkillScore_MissingShare(user_skills, required_skills, preferred_skills) ==
    LET all_career_skills == required_skills \cup preferred_skills
    IN IF all_career_skills # {}
       THEN RAdd(RMul(Rat(Cardinality(all_career_skills \ user_skills),
                          Cardinality(all_career_skills)),
                      Num(70)),
                 RMul(Rat(Cardinality(required_skills \ user_skills),
                          Max(Cardinality(required_skills), 1)),
                      Num(30)))
       ELSE InitialSkillScore

\* 1. Skill matching (40% of total score)
SkillScore(user_skills, required_skills, preferred_skills) ==
    LET all_career_skills == required_skills \cup preferred_skills
        matching_skills == user_skills \cap all_career_skills
        required_matching == user_skills \cap required_skills
    IN IF all_career_skills # {}
       THEN RAdd(RMul(Rat(Cardinality(matching_skills), Cardinality(all_career_skills)),
                      Num(70)),
                 RMul(Rat(Cardinality(required_matching),
                          Max(Cardinality(required_skills), 1)),
                      Num(30)))
       ELSE InitialSkillScore

\* set(word.lower() for word in title.split() + description.split()[:20])
CareerKeywords(c) == LowerSet(Split(c.title) \o Take(Split(c.description), 20))

\* 2. Interest alignment (25% of total score)
InterestScore(user_interests, c) ==
    LET career_keywords == CareerKeywords(c)
        interest_matches ==
            Cardinality({interest \in user_interests :
                            \E keyword \in career_keywords : IsSubstring(keyword, interest)})
    IN IF user_interests # {}
       THEN RMin(RMul(Rat(interest_matches, Cardinality(user_interests)), Num(100)),
                 Num(100))
       ELSE Num(0)

\* 3. Industry preference (15% of total score)
IndustryScore(user_industries, c) ==
    IF user_industries # {}
    THEN IF Lower(c.industry) \in user_industries THEN Num(100) ELSE Num(50)
    ELSE Num(80)

\* variant: the table keyed by "high-school"
EducationRank_Hyphen(level) ==
    CASE level = Str_high_hyphen_school -> 1
      [] level = Str_diploma -> 2
      [] level = Str_bachelor -> 3
      [] level = Str_master -> 4
      [] level = Str_phd -> 5
      [] OTHER -> 3

\* education_mapping.get(level, 3)
EducationRank(level) ==
    CASE level = Str_high_school -> 1
      [] level = Str_diploma -> 2
      [] level = Str_bachelor -> 3
      [] level = Str_master -> 4
      [] level = Str_phd -> 5
      [] OTHER -> 3

\* 4. Education alignment (10% of total score)
EducationScore(user_education, c) ==
    LET user_edu_level == EducationRank(user_education)
        required_edu == IF c.education_requirements # << >>
                        THEN c.education_requirements[1]
                        ELSE Str_bachelor
        required_edu_level == EducationRank(Lower(required_edu))
    IN IF user_edu_level >= required_edu_level THEN Num(100)
       ELSE IF user_edu_level = required_edu_level - 1 THEN Num(70)
       ELSE Num(40)

\* experience_mapping.get(level, (0, 2))
ExperienceRange(level) ==
    CASE level = Str_entry -> <<0, 2>>
      [] level = Str_mid -> <<2, 8>>
      [] level = Str_senior -> <<8, 15>>
      [] level = Str_executive -> <<15, 50>>
      [] OTHER -> <<0, 2>>

\* variant: the two partial-credit branches without their max(..., 20) / max(..., 50)
ExperienceScore_NoFloor(user_experience, c) ==
    LET exp_range == ExperienceRange(Lower(c.experience_level))
    IN IF exp_range[1] <= user_experience /\ user_experience <= exp_range[2]
       THEN Num(100)
       ELSE IF user_experience < exp_range[1]
       THEN Num(60 - (exp_range[1] - user_experience) * 10)
       ELSE Num(80 - (user_experience - exp_range[2]) * 5)

\* 5. Experience alignment (10% of total score)
ExperienceScore(user_experience, c) ==
    LET exp_range == ExperienceRange(Lower(c.experience_level))
    IN IF exp_range[1] <= user_experience /\ user_experience <= exp_range[2]
       THEN Num(100)
       ELSE IF user_experience < exp_range[1]
       THEN Num(Max(60 - (exp_range[1] - user_experience) * 10, 20))
       ELSE Num(Max(80 - (user_experience - exp_range[2]) * 5, 50))

\* variant: the experience term is left out of the sum
WeightedTotal_NoExperience(skill_score, interest_score, industry_score, education_score, experience_score) ==
    RAdd(RAdd(RAdd(RMul(skill_score, Rat(40, 100)),
                   RMul(interest_score, Rat(25, 100))),
              RMul(industry_score, Rat(15, 100))),
         RMul(education_score, Rat(10, 100)))

\* The weighted total
WeightedTotal(skill_score, interest_score, industry_score, education_score, experience_score) ==
    RAdd(RAdd(RAdd(RAdd(RMul(skill_score, Rat(40, 100)),
                        RMul(interest_score, Rat(25, 100))),
                   RMul(industry_score, Rat(15, 100))),
              RMul(education_score, Rat(10, 100))),
         RMul(experience_score, Rat(10, 100)))

\* The sentence "This career " + ", ".join(reasons[:3]) + "." [+ growth clause]
\* as the sequence of its clauses.
\* variant: every reason joined, without the cut to reasons[:3]
GenerateMatchReasoning_All(skill_score, interest_score, industry_score, education_score, experience_score, c) ==
    LET reasons ==
            <<IF RLt(Num(70), skill_score) THEN "Strong skill alignment"
              ELSE IF RLt(Num(40), skill_score)
                   THEN "Good skill foundation with room to grow"
                   ELSE "Developing skills required">>
            \o (IF RLt(Num(60), interest_score)
                THEN <<"aligns with your interests">> ELSE << >>)
            \o (IF RLt(Num(80), industry_score)
                THEN <<"matches your preferred industry">> ELSE << >>)
            \o (IF RLt(Num(80), education_score)
                THEN <<"education requirements are met">> ELSE << >>)
            \o (IF RLt(Num(80), experience_score)
                THEN <<"experience level is appropriate">> ELSE << >>)
    IN reasons
       \o (IF c.growth_potential > 7
           THEN <<" High growth potential in the market.">> ELSE << >>)

GenerateMatchReasoning(skill_score, interest_score, industry_score, education_score, experience_score, c) ==
    LET reasons ==
            <<IF RLt(Num(70), skill_score) THEN "Strong skill alignment"
              ELSE IF RLt(Num(40), skill_score)
                   THEN "Good skill foundation with room to grow"
                   ELSE "Developing skills required">>
            \o (IF RLt(Num(60), interest_score)
                THEN <<"aligns with your interests">> ELSE << >>)
            \o (IF RLt(Num(80), industry_score)
                THEN <<"matches your preferred industry">> ELSE << >>)
            \o (IF RLt(Num(80), education_score)
                THEN <<"education requirements are met">> ELSE << >>)
            \o (IF RLt(Num(80), experience_score)
                THEN <<"experience level is appropriate">> ELSE << >>)
    IN Take(reasons, 3)
       \o (IF c.growth_potential > 7
           THEN <<" High growth potential in the market.">> ELSE << >>)

CalculateMatchScore(profile, c) ==
    LET user_skills == LowerSet(profile.skills)
        user_interests == LowerSet(profile.interests)
        user_industries == LowerSet(profile.preferred_industries)
        user_education == Lower(profile.education_level)
        user_experience == profile.experience_years
        required_skills == LowerSet(c.required_skills)
        preferred_skills == LowerSet(c.preferred_skills)
        all_career_skills == required_skills \cup preferred_skills
        skill_score == SkillScore(user_skills, required_skills, preferred_skills)
        interest_score == InterestScore(user_interests, c)
        industry_score == IndustryScore(user_industries, c)
        education_score == EducationScore(user_education, c)
        experience_score == ExperienceScore(user_experience, c)
        total_score == WeightedTotal(skill_score, interest_score, industry_score,
                                     education_score, experience_score)
    IN [total_score |-> Round(total_score, 2),
        skill_match |-> Round(skill_score, 2),
        matching_skills |-> user_skills \cap all_career_skills,
        missing_skills |-> required_skills \ user_skills,
        reasoning |-> GenerateMatchReasoning(skill_score, interest_score,
                          industry_score, education_score, experience_score, c),
        component_scores |-> [skills |-> skill_score,
                              interests |-> interest_score,
                              industry |-> industry_score,
                              education |-> education_score,
                              experience |-> experience_score]]

----------------------------------------------------------------------------
(* Inputs of the scorer *)

SkillLists == {<< >>, <<Str_python, Str_sql>>, <<Str_Python, Str_react, Str_python>>,
               <<Str_communication, Str_leadership>>}
InterestLists == {<< >>, <<Str_data>>, <<Str_web_development, Str_Music>>}
IndustryLists == {<< >>, <<Str_Technology>>, <<Str_finance, Str_healthcare>>}
EducationLevels ==
    {Str_high_school, Str_Bachelor, Str_master, Str_phd, Str_high_hyphen_school}
ExperienceYears == {0, 2, 5, 12, 50}

Profiles ==
    [skills : SkillLists, interests : InterestLists,
     preferred_industries : IndustryLists, education_level : EducationLevels,
     experience_years : ExperienceYears]

Career(id, title, industry, description, required, preferred, education, level, growth) ==
    [id |-> id, title |-> title, industry |-> industry, description |-> description,
     required_skills |-> required, preferred_skills |-> preferred,
     education_requirements |-> education, experience_level |-> level,
     growth_potential |-> growth]

DataAnalyst ==
    Career("c1", Str_Data_Analyst, Str_technology, Str_desc_data,
           <<Str_python, Str_sql, Str_react>>, << >>, <<Str_bachelor>>, Str_entry, 8)
WebDeveloper ==
    Career("c2", Str_Web_Developer, Str_technology, Str_desc_web,
           <<Str_javascript, Str_react>>, <<Str_Python>>, <<Str_Master>>, Str_mid, 7)
BankManager ==
    Career("c3", Str_Bank_Manager, Str_finance, Str_desc_bank,
           << >>, << >>, << >>, Str_senior, 5)
BankDirector ==
    Career("c4", Str_Bank_Manager, Str_finance, Str_desc_bank,
           <<Str_leadership>>, <<Str_communication>>, <<Str_phd>>, Str_executive, 9)
HealthAnalyst ==
    Career("c5", Str_Data_Analyst, Str_healthcare, Str_desc_data,
           <<Str_python>>, <<Str_python, Str_SQL>>, <<Str_diploma>>, Str_entry, 6)

Careers == {DataAnalyst, WebDeveloper, BankManager, BankDirector, HealthAnalyst}

----------------------------------------------------------------------------
(* Repeated calls of _calculate_match_score on one agent, one profile *)

MaxCalls == 3

NoMatchRun == n_scored = 0 /\ career_matches = << >> /\ result = None
NoGapRun ==
    target_career = None /\ skill_proficiency = None /\ output = None /\ request = None
NoRoadmapRun == skill_gaps = << >> /\ learning_roadmap = None
NoRankRun == unranked = None /\ resources = None /\ passes = 0
NoScoreRun == career = None /\ score = None /\ first = None /\ calls = 0

Init ==
    /\ user_profile \in Profiles
    /\ pc = "idle"
    /\ NoScoreRun /\ NoMatchRun /\ NoGapRun /\ NoRoadmapRun /\ NoRankRun

\* match_score = await self._calculate_match_score(user_profile, career)
CallCalculateMatchScore(c) ==
    /\ calls < MaxCalls
    /\ score' = CalculateMatchScore(user_profile, c)
    /\ career' = c
    /\ calls' = calls + 1
    /\ first' = IF calls = 0 THEN [career |-> c, score |-> score'] ELSE first
    /\ pc' = "scored"
    /\ UNCHANGED <<user_profile, matchVars, gapVars, roadmapVars, rankVars>>

Next == \E c \in Careers : CallCalculateMatchScore(c)

Spec == Init /\ [][Next]_vars

InRange(x, lo, hi) == RLe(Num(lo), x) /\ RLe(x, Num(hi))

\* C2: each of the five component scores, the weighted total match_score and the
\* skill match percentage of every scored (profile, career) pair lie in [0, 100].
C2_ScoreBounds ==
    score # None =>
        /\ InRange(score.component_scores.skills, 0, 100)
        /\ InRange(score.component_scores.interests, 0, 100)
        /\ InRange(score.component_scores.industry, 0, 100)
        /\ InRange(score.component_scores.education, 0, 100)
        /\ InRange(score.component_scores.experience, 0, 100)
        /\ InRange(score.total_score, 0, 100)
        /\ InRange(score.skill_match, 0, 100)

\* A pair scored at the upper bound, and one with a component at its floor.
C2_Witness ==
    /\ score # None
    /\ score.total_score = Num(100)
    /\ first.score.component_scores.experience = Num(20)

Scenario1 ==
    /\ score # None
    /\ LowerSet(user_profile.skills) = {Str_python, Str_sql}
    /\ LowerSet(career.required_skills) = {Str_python, Str_sql, Str_react}
    /\ career.preferred_skills = << >>
    /\ score.component_scores.interests = Num(100)
    /\ score.component_scores.industry = Num(100)
    /\ score.component_scores.education = Num(100)
    /\ score.component_scores.experience = Num(100)

\* C5 as stated: in scenario 1 the skills score is 66.67 and total_score is 76.67.
C5_Original ==
    Scenario1 => score.skill_match = Rat(6667, 100) /\ score.total_score = Rat(7667, 100)

\* C5 amended: in scenario 1 (skills {python, sql} against required
\* [python, sql, react], no preferred skills, the four other components at 100)
\* the skills score is 66.67 and total_score is 86.67.
C5_Scenario1 ==
    Scenario1 => score.skill_match = Rat(6667, 100) /\ score.total_score = Rat(8667, 100)

C5_Witness == Scenario1

----------------------------------------------------------------------------
(* CareerMatchAgent._process *)

RECURSIVE InsertIndex(_, _, _)
\* index i placed before the first index of `done` that `first` puts it ahead of
InsertIndex(done, i, ahead) ==
    IF done = << >> THEN <<i>>
    ELSE IF ahead[i, done[1]] THEN <<i>> \o done
    ELSE <<done[1]>> \o InsertIndex(Tail(done), i, ahead)

RECURSIVE SortIndices(_, _)
SortIndices(k, ahead) ==
    IF k = 0 THEN << >> ELSE InsertIndex(SortIndices(k - 1, ahead), k, ahead)

\* list.sort(key=..., reverse=True): descending, equal keys keep their order.
\* gt[i, j] holds when the key of s[i] is greater than the key of s[j].
StableSortDesc(s, gt) ==
    LET order == SortIndices(Len(s), gt)
    IN [p \in 1..Len(s) |-> s[order[p]]]

\* variant: sort(key=...) without reverse=True
StableSortAsc(s, gt) ==
    LET ahead == [i \in DOMAIN s, j \in DOMAIN s |-> gt[j, i]]
        order == SortIndices(Len(s), ahead)
    IN [p \in 1..Len(s) |-> s[order[p]]]

CareerById(id) == CHOOSE c \in Careers : c.id = id

\* CareerMatch(career=career, match_score=..., ...); career is held by reference
CareerMatch(c, match_score) ==
    [career |-> c.id,
     match_score |-> match_score.total_score,
     skill_match_percentage |-> match_score.skill_match,
     missing_skills |-> match_score.missing_skills,
     matching_skills |-> match_score.matching_skills,
     recommendation_reason |-> match_score.reasoning]

\* variant: the threshold test written with >=
PassesThreshold_Ge(total_score) == RLe(Num(30), total_score)

\* if match_score["total_score"] > 30
PassesThreshold(total_score) == RLt(Num(30), total_score)

MatchScoreGt(a, b) == RLt(b.match_score, a.match_score)

\* key=lambda x: x.match_score
MatchScoreOrder(matches) == [i \in DOMAIN matches, j \in DOMAIN matches |-> MatchScoreGt(matches[i], matches[j])]

\* variant: sorted ascending
SortMatches_Asc(matches) == StableSortAsc(matches, MatchScoreOrder(matches))

\* career_matches.sort(key=lambda x: x.match_score, reverse=True)
SortMatches(matches) == StableSortDesc(matches, MatchScoreOrder(matches))

TopMatches == 10

\* variant: the cut taken from the tail of the list
LimitMatches_Tail(matches) == Drop(matches, Max(Len(matches) - TopMatches, 0))

\* career_matches[:10]
LimitMatches(matches) == Take(matches, TopMatches)

RECURSIVE RSum(_)
RSum(xs) == IF xs = << >> THEN Num(0) ELSE RAdd(xs[1], RSum(Tail(xs)))

EmptyDict == [empty |-> TRUE]

\* _calculate_matching_confidence
CalculateMatchingConfidence(matches) ==
    IF matches = << >>
    THEN [overall |-> Num(0), data_quality |-> Num(0), match_diversity |-> Num(0)]
    ELSE LET top == Take(matches, 5)
             top_scores == [i \in 1..Len(top) |-> top[i].match_score]
             avg_top_score == RDiv(RSum(top_scores), Num(Len(top_scores)))
             data_quality == IF Len(matches) >= 5 THEN Rat(8, 10) ELSE Rat(6, 10)
             industries == {CareerById(m.career).industry : m \in Range(Take(matches, 10))}
             diversity == RMin(Rat(Cardinality(industries), 5), Num(1))
             overall_confidence ==
                 RAdd(RAdd(RMul(RDiv(avg_top_score, Num(100)), Rat(5, 10)),
                           RMul(data_quality, Rat(3, 10))),
                      RMul(diversity, Rat(2, 10)))
         IN [overall |-> Round(overall_confidence, 3),
             data_quality |-> Round(data_quality, 3),
             match_diversity |-> Round(diversity, 3),
             top_match_score |-> Round(avg_top_score, 2)]

\* _generate_market_insights: the provider's answer, or the error dict
GenerateMarketInsights(gemini_ok) ==
    IF gemini_ok
    THEN [market_analysis |-> "analysis", salary_insights |-> "salary",
          growth_trends |-> "trends", recommendations |-> "recommendations"]
    ELSE [error |-> "Could not generate market insights"]

MaxCatalog == 11

MatchProfiles ==
    {[skills |-> <<Str_python, Str_sql>>, interests |-> <<Str_data>>,
      preferred_industries |-> <<Str_Technology>>, education_level |-> Str_Bachelor,
      experience_years |-> 0],
     [skills |-> << >>, interests |-> << >>,
      preferred_industries |-> <<Str_finance, Str_healthcare>>,
      education_level |-> Str_Bachelor, experience_years |-> 50]}

MatchCareers == {DataAnalyst, WebDeveloper, BankManager}

InitMatch ==
    /\ user_profile \in MatchProfiles
    /\ pc = "query"
    /\ n_scored = 0
    /\ career_matches = << >>
    /\ result = [career_matches |-> << >>, matching_methodology |-> "",
                 confidence_scores |-> EmptyDict, market_insights |-> EmptyDict]
    /\ NoScoreRun /\ NoGapRun /\ NoRoadmapRun /\ NoRankRun

\* candidate_careers = await self._query_careers(...): the catalog's rows, read by
\* the loop one at a time, or [] when the query raised
QueryCareers(catalog_ok) ==
    /\ pc = "query"
    /\ pc' = IF catalog_ok THEN "loop" ELSE "empty"
    /\ UNCHANGED <<user_profile, scoreVars, matchVars, gapVars, roadmapVars, rankVars>>

\* one iteration of `for career in candidate_careers`
ScoreCandidate(c) ==
    /\ pc = "loop"
    /\ n_scored < MaxCatalog
    /\ LET match_score == CalculateMatchScore(user_profile, c)
       IN IF PassesThreshold(match_score.total_score)
          THEN IF InRange(match_score.total_score, 0, 100)
                  /\ InRange(match_score.skill_match, 0, 100)
               THEN /\ career_matches' = Append(career_matches, CareerMatch(c, match_score))
                    /\ pc' = "loop"
               ELSE \* CareerMatch's field constraints reject the value
                    /\ career_matches' = career_matches
                    /\ pc' = "failed"
          ELSE /\ career_matches' = career_matches
               /\ pc' = "loop"
    /\ n_scored' = n_scored + 1
    /\ UNCHANGED <<user_profile, scoreVars, result, gapVars, roadmapVars, rankVars>>

\* after the loop: sort, cut to the top 10, insights, methodology, confidence
FinishProcess(gemini_ok) ==
    /\ pc \in {"loop", "empty"}
    /\ LET sorted == SortMatches(career_matches)
       IN /\ career_matches' = sorted
          /\ result' = [career_matches |-> LimitMatches(sorted),
                        matching_methodology |-> "methodology",
                        confidence_scores |-> CalculateMatchingConfidence(sorted),
                        market_insights |-> IF sorted # << >>
                                            THEN GenerateMarketInsights(gemini_ok)
                                            ELSE EmptyDict]
    /\ pc' = "done"
    /\ UNCHANGED <<user_profile, scoreVars, n_scored, gapVars, roadmapVars, rankVars>>

NextMatch ==
    \/ \E catalog_ok \in BOOLEAN : QueryCareers(catalog_ok)
    \/ \E c \in MatchCareers : ScoreCandidate(c)
    \/ \E gemini_ok \in BOOLEAN : FinishProcess(gemini_ok)

SpecMatch == InitMatch /\ [][NextMatch]_vars

\* C1: no career match that _process returns has a total match score <= 30.
C1_ThresholdFilter ==
    pc = "done" =>
        \A i \in DOMAIN result.career_matches :
            RLt(Num(30), result.career_matches[i].match_score)

\* A finished run that returned matches and left out scored candidates.
C1_Witness ==
    /\ pc = "done"
    /\ result.career_matches # << >>
    /\ Len(career_matches) < n_scored

SeqBag(s) == [x \in Range(s) |-> Cardinality({i \in DOMAIN s : s[i] = x})]

\* `returned` is the top 10 of `passed`
IsTopOf(returned, passed) ==
    /\ \A i \in 1..(Len(returned) - 1) :
           RLe(returned[i + 1].match_score, returned[i].match_score)
    /\ Len(returned) = Min(Len(passed), 10)
    /\ SeqBag(returned) \sqsubseteq SeqBag(passed)
    /\ LET left_out == SeqBag(passed) (-) SeqBag(returned)
       IN \A x \in BagToSet(left_out), y \in Range(returned) :
              RLe(x.match_score, y.match_score)

\* C3: when _process finishes, the returned list is ordered by match score
\* non-increasing, holds at most 10 matches (the 10 best of those that passed the
\* filter, all of them when fewer passed), and every match left out scores no
\* more than every returned one.
C3_SortedTopTen ==
    [][(pc = "loop" /\ pc' = "done") => IsTopOf(result'.career_matches, career_matches)]_vars

\* Eleven candidates passed, of two different scores, and one was cut.
C3_Witness ==
    /\ pc = "done"
    /\ Len(career_matches) = 11
    /\ Len(result.career_matches) = 10
    /\ career_matches[1].match_score # career_matches[11].match_score
    /\ result.career_matches[10].match_score # career_matches[11].match_score

----------------------------------------------------------------------------
(* SkillGapAgent *)

ContainsAny(s, words) == \E w \in words : IsSubstring(w, s)

\* _estimate_base_proficiency
EstimateBaseProficiency(education_level) ==
    LET level == Lower(education_level)
    IN CASE level = Str_high_school -> Num(2)
         [] level = Str_diploma -> Num(3)
         [] level = Str_bachelor -> Num(4)
         [] level = Str_master -> Num(5)
         [] level = Str_phd -> Num(6)
         [] OTHER -> Num(4)



\* _get_skill_type_modifier
GetSkillTypeModifier(skill) ==
    LET skill_lower == Lower(skill)
    IN IF ContainsAny(skill_lower, {Str_python, Str_java, Str_javascript, Str_coding, Str_programming})
       THEN Num(1)
       ELSE IF ContainsAny(skill_lower, {Str_communication, Str_leadership, Str_teamwork})
       THEN Rat(5, 10)
       ELSE IF ContainsAny(skill_lower, {Str_ai, Str_machine_learning, Str_blockchain})
       THEN Rat(-5, 10)
       ELSE Num(0)

\* _classify_skill_type
ClassifySkillType(skill) ==
    LET skill_lower == Lower(skill)
    IN IF ContainsAny(skill_lower, {Str_python, Str_java, Str_javascript, Str_sql, Str_programming})
       THEN "technical"
       ELSE IF ContainsAny(skill_lower, {Str_communication, Str_leadership, Str_management})
       THEN "soft"
       ELSE IF ContainsAny(skill_lower, {Str_english, Str_hindi, Str_spanish})
       THEN "language"
       ELSE "domain"

\* the proficiency the loop body computes for one listed skill
EstimateProficiency(profile, skill) ==
    LET base_proficiency == EstimateBaseProficiency(profile.education_level)
        experience_boost == RMin(RMul(Num(profile.experience_years), Rat(5, 10)), Num(3))
        skill_type_modifier == GetSkillTypeModifier(skill)
        proficiency == RMin(RAdd(RAdd(base_proficiency, experience_boost),
                                 skill_type_modifier), Num(10))
    IN Round(proficiency, 1)

RECURSIVE SkillProficiencyUpTo(_, _)
\* the dict after the first k skills of the list: a later skill with the same
\* lower-cased name overwrites the entry
SkillProficiencyUpTo(profile, k) ==
    IF k = 0 THEN << >>
    ELSE LET prev == SkillProficiencyUpTo(profile, k - 1)
             skill == profile.skills[k]
         IN [name \in DOMAIN prev \cup {Lower(skill)} |->
                IF name = Lower(skill) THEN EstimateProficiency(profile, skill)
                ELSE prev[name]]

\* _get_user_skill_proficiency
GetUserSkillProficiency(profile) == SkillProficiencyUpTo(profile, Len(profile.skills))

RECURSIVE PreferredRequirements_AsRequired(_, _, _)
\* variant: preferred skills given the importance and proficiency of required ones
PreferredRequirements_AsRequired(preferred_skills, k, skill_requirements) ==
    IF k > Len(preferred_skills) THEN skill_requirements
    ELSE LET skill == preferred_skills[k]
         IN PreferredRequirements_AsRequired(preferred_skills, k + 1,
                IF Lower(skill) \notin {skill_requirements[i].name : i \in DOMAIN skill_requirements}
                THEN Append(skill_requirements,
                            [name |-> Lower(skill), importance_level |-> Num(9),
                             required_proficiency |-> Num(7),
                             skill_type |-> ClassifySkillType(skill),
                             is_required |-> FALSE])
                ELSE skill_requirements)

RECURSIVE PreferredRequirements(_, _, _)
\* the loop over preferred_skills, appending those whose name is not yet listed
PreferredRequirements(preferred_skills, k, skill_requirements) ==
    IF k > Len(preferred_skills) THEN skill_requirements
    ELSE LET skill == preferred_skills[k]
         IN PreferredRequirements(preferred_skills, k + 1,
                IF Lower(skill) \notin {skill_requirements[i].name : i \in DOMAIN skill_requirements}
                THEN Append(skill_requirements,
                            [name |-> Lower(skill), importance_level |-> Num(6),
                             required_proficiency |-> Num(5),
                             skill_type |-> ClassifySkillType(skill),
                             is_required |-> FALSE])
                ELSE skill_requirements)

\* _get_career_skill_requirements
GetCareerSkillRequirements(target) ==
    LET required ==
            [i \in 1..Len(target.required_skills) |->
                [name |-> Lower(target.required_skills[i]), importance_level |-> Num(9),
                 required_proficiency |-> Num(7),
                 skill_type |-> ClassifySkillType(target.required_skills[i]),
                 is_required |-> TRUE]]
    IN PreferredRequirements(target.preferred_skills, 1, required)

\* _get_learning_resources
GetLearningResources(skill_name, current_level) ==
    <<[type |-> "course", title |-> Str_Learn \o Title(skill_name),
       provider |-> "Online Platform", duration |-> "4-6 weeks",
       difficulty |-> IF RLt(current_level, Num(3)) THEN "beginner" ELSE "intermediate",
       skill_type |-> ClassifySkillType(skill_name)]>>

\* variant: the gap without its floor at 0
GapScore_NoFloor(required_proficiency, current_proficiency) ==
    RSub(required_proficiency, current_proficiency)

\* gap_score = max(required_proficiency - current_proficiency, 0.0)
GapScore(required_proficiency, current_proficiency) ==
    RMax(RSub(required_proficiency, current_proficiency), Num(0))

\* _analyze_single_skill_gap
AnalyzeSingleSkillGap(skill_req, proficiency) ==
    LET skill_name == skill_req.name
        current_proficiency == IF skill_name \in DOMAIN proficiency
                               THEN proficiency[skill_name] ELSE Num(0)
    IN [skill_name |-> skill_name,
        importance_level |-> skill_req.importance_level,
        current_proficiency |-> current_proficiency,
        required_proficiency |-> skill_req.required_proficiency,
        gap_score |-> GapScore(skill_req.required_proficiency, current_proficiency),
        learning_resources |-> GetLearningResources(skill_name, current_proficiency)]

\* the field constraints of models.career.SkillGap (ge=0.0, le=10.0)
ValidSkillGap(gap) ==
    /\ InRange(gap.importance_level, 0, 10)
    /\ InRange(gap.current_proficiency, 0, 10)
    /\ InRange(gap.required_proficiency, 0, 10)
    /\ InRange(gap.gap_score, 0, 10)

\* variant: an empty gap list counts as not ready
ReadinessOfNoGaps_Zero == Num(0)

\* if not skill_gaps: return 100.0
ReadinessOfNoGaps == Num(100)

\* variant: the result rounded to 2 decimals
RoundReadiness_2(overall_readiness) == Round(overall_readiness, 2)

\* return round(overall_readiness, 1)
RoundReadiness(overall_readiness) == Round(overall_readiness, 1)

\* _calculate_overall_readiness
CalculateOverallReadiness(gaps) ==
    IF gaps = << >> THEN ReadinessOfNoGaps
    ELSE LET skill_readiness(gap) ==
                 IF RLt(Num(0), gap.required_proficiency)
                 THEN RMin(RMul(RDiv(gap.current_proficiency, gap.required_proficiency),
                                Num(100)), Num(100))
                 ELSE Num(100)
             total_weighted_score ==
                 RSum([i \in 1..Len(gaps) |->
                          RMul(skill_readiness(gaps[i]), gaps[i].importance_level)])
             total_weight == RSum([i \in 1..Len(gaps) |-> gaps[i].importance_level])
         IN IF RLt(Num(0), total_weight)
            THEN RoundReadiness(RDiv(total_weighted_score, total_weight))
            ELSE RoundReadiness(Num(100))

\* variant: the buckets sorted without reverse=True
ImportanceGt_Ascending(a, b) == RLt(a.importance_level, b.importance_level)

ImportanceGt(a, b) == RLt(b.importance_level, a.importance_level)

\* variant: an unstable sort that leaves equal importances in the opposite order
SortByImportance_TiesReversed(gaps) ==
    LET reversed == [i \in 1..Len(gaps) |-> gaps[Len(gaps) + 1 - i]]
    IN StableSortDesc(reversed, [i \in DOMAIN reversed, j \in DOMAIN reversed |-> ImportanceGt(reversed[i], reversed[j])])

\* xs.sort(key=lambda x: x.importance_level, reverse=True)
SortByImportance(gaps) ==
    StableSortDesc(gaps, [i \in DOMAIN gaps, j \in DOMAIN gaps |-> ImportanceGt(gaps[i], gaps[j])])

SkillNames(gaps) == [i \in 1..Len(gaps) |-> gaps[i].skill_name]

HighPriorityCut == 3
MediumPriorityCut == 3

\* variant: phase 3 without the low-priority gaps
CreateLearningRoadmap_NoLow(gaps) ==
    LET IsHigh(gap) == RLt(Num(5), gap.gap_score) /\ RLt(Num(7), gap.importance_level)
        IsMedium(gap) == ~IsHigh(gap) /\ RLt(Num(3), gap.gap_score)
                            /\ RLt(Num(5), gap.importance_level)
        IsLow(gap) == ~IsHigh(gap) /\ ~IsMedium(gap)
        high_priority == SortByImportance(SelectSeq(gaps, IsHigh))
        medium_priority == SortByImportance(SelectSeq(gaps, IsMedium))
        low_priority == SortByImportance(SelectSeq(gaps, IsLow))
    IN [phase_1_immediate |->
            [skills |-> SkillNames(Take(high_priority, HighPriorityCut)),
             duration_weeks |-> 8,
             description |-> "Critical skills needed for career entry"],
        phase_2_foundation |->
            [skills |-> SkillNames(Drop(high_priority, HighPriorityCut)
                                   \o Take(medium_priority, MediumPriorityCut)),
             duration_weeks |-> 12,
             description |-> "Core competency development"],
        phase_3_advanced |->
            [skills |-> SkillNames(Drop(medium_priority, MediumPriorityCut)),
             duration_weeks |-> 16,
             description |-> "Advanced skills for career growth"]]

\* _create_learning_roadmap
CreateLearningRoadmap(gaps) ==
    LET IsHigh(gap) == RLt(Num(5), gap.gap_score) /\ RLt(Num(7), gap.importance_level)
        IsMedium(gap) == ~IsHigh(gap) /\ RLt(Num(3), gap.gap_score)
                            /\ RLt(Num(5), gap.importance_level)
        IsLow(gap) == ~IsHigh(gap) /\ ~IsMedium(gap)
        high_priority == SortByImportance(SelectSeq(gaps, IsHigh))
        medium_priority == SortByImportance(SelectSeq(gaps, IsMedium))
        low_priority == SortByImportance(SelectSeq(gaps, IsLow))
    IN [phase_1_immediate |->
            [skills |-> SkillNames(Take(high_priority, HighPriorityCut)),
             duration_weeks |-> 8,
             description |-> "Critical skills needed for career entry"],
        phase_2_foundation |->
            [skills |-> SkillNames(Drop(high_priority, HighPriorityCut)
                                   \o Take(medium_priority, MediumPriorityCut)),
             duration_weeks |-> 12,
             description |-> "Core competency development"],
        phase_3_advanced |->
            [skills |-> SkillNames(Drop(medium_priority, MediumPriorityCut) \o low_priority),
             duration_weeks |-> 16,
             description |-> "Advanced skills for career growth"]]

PriorityGt(a, b) == RLt(b[2], a[2])

\* _identify_priority_skills
IdentifyPrioritySkills(gaps) ==
    LET prioritized_gaps ==
            [i \in 1..Len(gaps) |->
                <<gaps[i].skill_name, RMul(gaps[i].gap_score, gaps[i].importance_level)>>]
        sorted == StableSortDesc(prioritized_gaps,
                    [i \in DOMAIN prioritized_gaps, j \in DOMAIN prioritized_gaps |-> PriorityGt(prioritized_gaps[i], prioritized_gaps[j])])
        top == Take(sorted, 5)
    IN [i \in 1..Len(top) |-> top[i][1]]

\* the multiplier table's .get(skill_type, 1.0)
SkillTypeMultiplier(skill_type) ==
    CASE skill_type = "technical" -> Rat(12, 10)
      [] skill_type = "soft" -> Rat(8, 10)
      [] skill_type = "domain" -> Num(1)
      [] skill_type = "language" -> Rat(15, 10)
      [] OTHER -> Num(1)

EstimatedHours(gap) ==
    RMul(RMul(gap.gap_score, Num(10)),
         IF gap.learning_resources # << >>
         THEN SkillTypeMultiplier(gap.learning_resources[1].skill_type)
         ELSE Num(1))

EstimatedWeeks(gap) == RMax(RDiv(EstimatedHours(gap), Num(10)), Num(1))

\* variant: total_weeks accumulated from the rounded weeks of the breakdown
EstimateLearningTime_RoundedWeeks(gaps) ==
    LET total_weeks == RSum([i \in 1..Len(gaps) |-> Round(EstimatedWeeks(gaps[i]), 0)])
        names == {gaps[i].skill_name : i \in DOMAIN gaps}
        last(name) == CHOOSE i \in DOMAIN gaps :
                          /\ gaps[i].skill_name = name
                          /\ \A j \in DOMAIN gaps : gaps[j].skill_name = name => j <= i
        skill_estimates ==
            [name \in names |->
                [hours |-> Round(EstimatedHours(gaps[last(name)]), 0),
                 weeks |-> Round(EstimatedWeeks(gaps[last(name)]), 0)]]
        SetSum[S \in SUBSET names] ==
            IF S = {} THEN Num(0)
            ELSE LET x == CHOOSE x \in S : TRUE
                 IN RAdd(skill_estimates[x].hours, SetSum[S \ {x}])
    IN [total_weeks |-> Round(total_weeks, 0),
        total_hours |-> SetSum[names],
        skill_breakdown |-> skill_estimates,
        intensive_weeks |-> Round(RMul(total_weeks, Rat(7, 10)), 0),
        part_time_weeks |-> Round(RMul(total_weeks, Rat(15, 10)), 0)]

\* _estimate_learning_time; skill_breakdown is a dict keyed by skill name, so a
\* later gap with the same name overwrites the entry
EstimateLearningTime(gaps) ==
    LET total_weeks == RSum([i \in 1..Len(gaps) |-> EstimatedWeeks(gaps[i])])
        names == {gaps[i].skill_name : i \in DOMAIN gaps}
        last(name) == CHOOSE i \in DOMAIN gaps :
                          /\ gaps[i].skill_name = name
                          /\ \A j \in DOMAIN gaps : gaps[j].skill_name = name => j <= i
        skill_estimates ==
            [name \in names |->
                [hours |-> Round(EstimatedHours(gaps[last(name)]), 0),
                 weeks |-> Round(EstimatedWeeks(gaps[last(name)]), 0)]]
        SetSum[S \in SUBSET names] ==
            IF S = {} THEN Num(0)
            ELSE LET x == CHOOSE x \in S : TRUE
                 IN RAdd(skill_estimates[x].hours, SetSum[S \ {x}])
    IN [total_weeks |-> Round(total_weeks, 0),
        total_hours |-> SetSum[names],
        skill_breakdown |-> skill_estimates,
        intensive_weeks |-> Round(RMul(total_weeks, Rat(7, 10)), 0),
        part_time_weeks |-> Round(RMul(total_weeks, Rat(15, 10)), 0)]

\* _generate_skill_recommendations: the provider's answer, or the error dict
GenerateSkillRecommendations(gemini_ok) ==
    IF gemini_ok
    THEN [learning_strategy |-> "strategy", skill_order |-> "order",
          learning_tips |-> "tips", portfolio_advice |-> "portfolio",
          pitfalls |-> "pitfalls"]
    ELSE [error |-> "Could not generate recommendations"]

\* SkillGapAgent._calculate_confidence; the roadmap dict always holds its three
\* phases, so result.get("learning_roadmap") is truthy
SkillGapConfidence(res) ==
    IF res.skill_gaps = << >> THEN Rat(3, 10)
    ELSE LET data_quality == RMin(Rat(Len(res.skill_gaps), 10), Num(1))
             roadmap_quality == Num(1)
             ai_quality == IF "learning_strategy" \in DOMAIN res.ai_recommendations
                           THEN Num(1) ELSE Rat(7, 10)
         IN Round(RAdd(RAdd(RMul(data_quality, Rat(4, 10)),
                            RMul(roadmap_quality, Rat(3, 10))),
                       RMul(ai_quality, Rat(3, 10))), 3)

\* SkillGapAgent._process
ProcessSkillGaps(profile, target, gemini_ok) ==
    LET proficiency == GetUserSkillProficiency(profile)
        career_skills == GetCareerSkillRequirements(target)
        gaps == [i \in 1..Len(career_skills) |->
                    AnalyzeSingleSkillGap(career_skills[i], proficiency)]
    IN [skill_gaps |-> gaps,
        overall_readiness |-> CalculateOverallReadiness(gaps),
        learning_roadmap |-> CreateLearningRoadmap(gaps),
        priority_skills |-> IdentifyPrioritySkills(gaps),
        time_estimates |-> EstimateLearningTime(gaps),
        ai_recommendations |-> GenerateSkillRecommendations(gemini_ok)]

\* variant: the failure output without error_message
FailedOutput_NoMessage(agent_name, message) ==
    [agent_name |-> agent_name, success |-> FALSE, result |-> EmptyDict,
     confidence_score |-> Num(0), error_message |-> None]

FailedOutput(agent_name, message) ==
    [agent_name |-> agent_name, success |-> FALSE, result |-> EmptyDict,
     confidence_score |-> Num(0),
     error_message |-> [text |-> <<"Agent ", agent_name, " failed: ", message>>]]

GapSkillLists == {<< >>, <<Str_react>>, <<Str_Python, Str_sql>>,
                  <<Str_python, Str_communication, Str_ai>>,
                  <<Str_javascript, Str_react, Str_git, Str_sql>>}
GapEducationLevels == {Str_high_school, Str_Bachelor, Str_phd, Str_mba}
GapExperienceYears == {0, 1, 6, 50}

GapProfiles ==
    [skills : GapSkillLists, interests : {<< >>}, preferred_industries : {<< >>},
     education_level : GapEducationLevels, experience_years : GapExperienceYears]

Target(id, title, required, preferred) ==
    [id |-> id, title |-> title, required_skills |-> required, preferred_skills |-> preferred]

TargetCareers ==
    {Target("t1", Str_Web_Developer, <<Str_Python, Str_javascript, Str_SQL, Str_git, Str_react>>, <<Str_communication>>),
     Target("t2", Str_Bank_Manager, << >>, << >>),
     Target("t3", Str_Web_Developer, <<Str_react>>, << >>),
     Target("t4", Str_Data_Analyst, <<Str_Python, Str_python>>, <<Str_Python, Str_ai, Str_SQL>>),
     Target("t5", Str_Data_Analyst, <<Str_ai>>, <<Str_email, Str_leadership>>)}

InitGap ==
    /\ user_profile \in GapProfiles
    /\ target_career \in TargetCareers \cup {None}
    /\ skill_proficiency = None
    /\ output = None
    /\ request = None
    /\ pc = "request"
    /\ NoScoreRun /\ NoMatchRun /\ NoRoadmapRun /\ NoRankRun

\* what execute returns when _process returned res
SucceededOutput(agent_name, res, confidence_score) ==
    [agent_name |-> agent_name, success |-> TRUE, result |-> res,
     confidence_score |-> confidence_score, error_message |-> None]

\* variant: an absent target role is replaced by a role without requirements
SkillGapOutput_DefaultsRole(profile, target, gemini_ok) ==
    LET role == IF target = None
                THEN [id |-> "", title |-> << >>, required_skills |-> << >>,
                      preferred_skills |-> << >>]
                ELSE target
        res == ProcessSkillGaps(profile, role, gemini_ok)
    IN SucceededOutput("skill_gap_agent", res, SkillGapConfidence(res))

\* SkillGapAgent.execute on a request that carries a user_id: _process, then
\* the confidence score, or the failed output when _process raised
SkillGapOutput(profile, target, gemini_ok) ==
    IF target = None
    THEN \* raise ValueError("target_career is required ...")
         FailedOutput("skill_gap_agent", "target_career is required for skill gap analysis")
    ELSE LET res == ProcessSkillGaps(profile, target, gemini_ok)
         IN IF \A i \in DOMAIN res.skill_gaps : ValidSkillGap(res.skill_gaps[i])
            THEN SucceededOutput("skill_gap_agent", res, SkillGapConfidence(res))
            ELSE \* SkillGap(...) rejected a field value
                 FailedOutput("skill_gap_agent", "validation error")

ExecuteSkillGap(gemini_ok) ==
    /\ pc = "request"
    /\ skill_proficiency' = IF target_career = None THEN skill_proficiency
                            ELSE GetUserSkillProficiency(user_profile)
    /\ output' = SkillGapOutput(user_profile, target_career, gemini_ok)
    /\ pc' = "done"
    /\ UNCHANGED <<user_profile, target_career, request, scoreVars, matchVars,
                   roadmapVars, rankVars>>

NextGap == \E gemini_ok \in BOOLEAN : ExecuteSkillGap(gemini_ok)

SpecGap == InitGap /\ [][NextGap]_vars


GapsOf(out) == out.result.skill_gaps

\* C6: for a target role with no required and no preferred skills the analysis
\* succeeds with no gaps, overall_readiness = 100.0 and a roadmap whose three
\* phases hold no skills.
C6_EmptyInputSafety ==
    (pc = "done" /\ target_career # None
       /\ target_career.required_skills = << >>
       /\ target_career.preferred_skills = << >>) =>
        /\ output.success
        /\ GapsOf(output) = << >>
        /\ output.result.overall_readiness = Num(100)
        /\ output.result.learning_roadmap.phase_1_immediate.skills = << >>
        /\ output.result.learning_roadmap.phase_2_foundation.skills = << >>
        /\ output.result.learning_roadmap.phase_3_advanced.skills = << >>

C6_Witness ==
    /\ pc = "done" /\ target_career # None
    /\ target_career.required_skills = << >>
    /\ target_career.preferred_skills = << >>
    /\ user_profile.skills # << >>
    /\ output.success

Scenario2 ==
    /\ pc = "done" /\ output.success
    /\ Len(GapsOf(output)) = 1
    /\ GapsOf(output)[1].importance_level = Num(9)
    /\ GapsOf(output)[1].current_proficiency = Num(2)
    /\ GapsOf(output)[1].required_proficiency = Num(7)

\* C7 as stated: the single gap (importance 9, current 2, required 7) has
\* gap_score 5.0 and the overall readiness is 28.57.
C7_Original ==
    Scenario2 => /\ GapsOf(output)[1].gap_score = Num(5)
                 /\ output.result.overall_readiness = Rat(2857, 100)

\* C7 amended: the single gap (importance 9, current 2, required 7) has
\* gap_score 5.0 and the overall readiness, rounded to 1 decimal, is 28.6.
C7_Scenario2 ==
    Scenario2 => /\ GapsOf(output)[1].gap_score = Num(5)
                 /\ output.result.overall_readiness = Rat(286, 10)

C7_Witness == Scenario2

\* C8: every analysis of a present target role succeeds (no SkillGap field is
\* rejected), every estimated proficiency and every gap_score lies in [0, 10]
\* and the overall readiness lies in [0, 100].
C8_GapTrackBounds ==
    (pc = "done" /\ target_career # None) =>
        /\ output.success
        /\ \A name \in DOMAIN skill_proficiency : InRange(skill_proficiency[name], 0, 10)
        /\ \A i \in DOMAIN GapsOf(output) :
               /\ InRange(GapsOf(output)[i].gap_score, 0, 10)
               /\ InRange(GapsOf(output)[i].current_proficiency, 0, 10)
        /\ InRange(output.result.overall_readiness, 0, 100)

\* An analysis with a proficiency at 10, a closed gap and a full gap.
C8_Witness ==
    /\ pc = "done" /\ target_career # None /\ output.success
    /\ \E name \in DOMAIN skill_proficiency : skill_proficiency[name] = Num(10)
    /\ \E i \in DOMAIN GapsOf(output) : GapsOf(output)[i].gap_score = Num(0)
    /\ \E i \in DOMAIN GapsOf(output) : GapsOf(output)[i].gap_score = Num(7)

----------------------------------------------------------------------------
(* _create_learning_roadmap on any list of skill gaps *)

MaxGaps == 4


Gap(name, importance, current, required) ==
    [skill_name |-> name, importance_level |-> Num(importance),
     current_proficiency |-> Num(current), required_proficiency |-> Num(required),
     gap_score |-> GapScore(Num(required), Num(current)),
     learning_resources |-> GetLearningResources(name, Num(current))]

\* gaps of each class: (importance, gap) = (8, 6), (9, 6), (6, 4), (7, 4), (3, 1),
\* (9, 0), and a second (8, 6) under another name
GapKinds ==
    {Gap(Str_alpha, 8, 1, 7), Gap(Str_beta, 9, 1, 7), Gap(Str_gamma, 6, 1, 5),
     Gap(Str_delta, 7, 3, 7), Gap(Str_epsilon, 3, 4, 5), Gap(Str_zeta, 9, 7, 7),
     Gap(Str_git, 8, 1, 7)}

GapLists == UNION {[1..n -> GapKinds] : n \in 0..MaxGaps}

InitRoadmap ==
    /\ skill_gaps \in GapLists
    /\ learning_roadmap = None
    /\ pc = "gaps"
    /\ user_profile = None
    /\ NoScoreRun /\ NoMatchRun /\ NoGapRun /\ NoRankRun

\* result["learning_roadmap"] = await self._create_learning_roadmap(skill_gaps)
CallCreateLearningRoadmap ==
    /\ pc = "gaps"
    /\ learning_roadmap' = CreateLearningRoadmap(skill_gaps)
    /\ pc' = "roadmap"
    /\ UNCHANGED <<user_profile, skill_gaps, scoreVars, matchVars, gapVars, rankVars>>

NextRoadmap == CallCreateLearningRoadmap

SpecRoadmap == InitRoadmap /\ [][NextRoadmap]_vars

HasScores(gap, gap_score, importance) ==
    gap.gap_score = Num(gap_score) /\ gap.importance_level = Num(importance)

Phase1 == learning_roadmap.phase_1_immediate.skills
Phase2 == learning_roadmap.phase_2_foundation.skills
Phase3 == learning_roadmap.phase_3_advanced.skills

IsHighGap(gap) == RLt(Num(5), gap.gap_score) /\ RLt(Num(7), gap.importance_level)
IsMediumGap(gap) ==
    ~IsHighGap(gap) /\ RLt(Num(3), gap.gap_score) /\ RLt(Num(5), gap.importance_level)

\* the gaps of i's class that the importance order puts ahead of gap i
AheadInClass(i, InClass(_)) ==
    {j \in DOMAIN skill_gaps :
        /\ InClass(skill_gaps[j])
        /\ \/ RLt(skill_gaps[i].importance_level, skill_gaps[j].importance_level)
           \/ (skill_gaps[j].importance_level = skill_gaps[i].importance_level /\ j < i)}

\* C9 as stated: in every roadmap a skill with gap_score 6 and importance 8 is
\* in phase_1, one with gap_score 4 and importance 6 in phase_2, and one with
\* gap_score 1 and importance 3 in phase_3.
C9_Original ==
    pc = "roadmap" =>
        \A i \in DOMAIN skill_gaps :
            /\ HasScores(skill_gaps[i], 6, 8) => skill_gaps[i].skill_name \in Range(Phase1)
            /\ HasScores(skill_gaps[i], 4, 6) => skill_gaps[i].skill_name \in Range(Phase2)
            /\ HasScores(skill_gaps[i], 1, 3) => skill_gaps[i].skill_name \in Range(Phase3)

\* C9 amended: a skill with gap_score 6 and importance 8 is in phase_1 when fewer
\* than three high-priority gaps are ahead of it in the importance order (greater
\* importance, or equal importance and earlier in the list) and in phase_2
\* otherwise; a skill with gap_score 4 and importance 6 is in phase_2 when fewer
\* than three medium-priority gaps are ahead of it and in phase_3 otherwise; a
\* skill with gap_score 1 and importance 3 is always in phase_3.
C9_Scenario3 ==
    pc = "roadmap" =>
        \A i \in DOMAIN skill_gaps :
            /\ HasScores(skill_gaps[i], 6, 8) =>
                   skill_gaps[i].skill_name \in
                       Range(IF Cardinality(AheadInClass(i, IsHighGap)) < 3
                             THEN Phase1 ELSE Phase2)
            /\ HasScores(skill_gaps[i], 4, 6) =>
                   skill_gaps[i].skill_name \in
                       Range(IF Cardinality(AheadInClass(i, IsMediumGap)) < 3
                             THEN Phase2 ELSE Phase3)
            /\ HasScores(skill_gaps[i], 1, 3) => skill_gaps[i].skill_name \in Range(Phase3)

\* A roadmap of the three scenario skills behind three gaps of greater importance:
\* the (6, 8) skill has been moved out of phase_1.
C9_Witness ==
    /\ pc = "roadmap"
    /\ \E i \in DOMAIN skill_gaps :
           /\ HasScores(skill_gaps[i], 6, 8)
           /\ skill_gaps[i].skill_name \notin Range(Phase1)
           /\ skill_gaps[i].skill_name \in Range(Phase2)

----------------------------------------------------------------------------
(* The three phases as positions of the input list *)

IsLowGap(gap) == ~IsHighGap(gap) /\ ~IsMediumGap(gap)

\* the input positions of the gaps that satisfy in_class, by importance_level
\* descending, equal importances by position ascending
ClassOrder(in_class) ==
    LET members == {i \in DOMAIN skill_gaps : in_class[i]}
        ahead(i) == {j \in members :
                        \/ RLt(skill_gaps[i].importance_level, skill_gaps[j].importance_level)
                        \/ /\ skill_gaps[j].importance_level = skill_gaps[i].importance_level
                           /\ j < i}
    IN [k \in 1..Cardinality(members) |->
           CHOOSE i \in members : Cardinality(ahead(i)) = k - 1]

NamesAt(positions) == [k \in 1..Len(positions) |-> skill_gaps[positions[k]].skill_name]

\* C21: a gap is high when gap_score > 5 and importance_level > 7, else medium
\* when gap_score > 3 and importance_level > 5, else low; each class is ordered
\* by importance descending with ties in input order; phase 1 is the first 3
\* high, phase 2 the remaining high then the first 3 medium, phase 3 the
\* remaining medium then all low.
C21_Bucketer ==
    pc = "roadmap" =>
        LET high == ClassOrder([i \in DOMAIN skill_gaps |-> IsHighGap(skill_gaps[i])])
            medium == ClassOrder([i \in DOMAIN skill_gaps |-> IsMediumGap(skill_gaps[i])])
            low == ClassOrder([i \in DOMAIN skill_gaps |-> IsLowGap(skill_gaps[i])])
        IN /\ Phase1 = NamesAt(SubSeq(high, 1, Min(3, Len(high))))
           /\ Phase2 = NamesAt(SubSeq(high, 4, Len(high))
                               \o SubSeq(medium, 1, Min(3, Len(medium))))
           /\ Phase3 = NamesAt(SubSeq(medium, 4, Len(medium)) \o low)

\* A roadmap of four high-priority gaps, two of them of equal importance: the
\* fourth in the order is the only skill of phase 2.
C21_Witness ==
    /\ pc = "roadmap"
    /\ Len(Phase1) = 3 /\ Len(Phase2) = 1 /\ Phase3 = << >>
    /\ \E i, j \in DOMAIN skill_gaps :
          /\ i < j
          /\ skill_gaps[i].importance_level = skill_gaps[j].importance_level
          /\ skill_gaps[i].skill_name # skill_gaps[j].skill_name

----------------------------------------------------------------------------

(* The phases as a partition of the gaps *)

Occurrences(xs, x) == Cardinality({i \in DOMAIN xs : xs[i] = x})

GapNames == {skill_gaps[i].skill_name : i \in DOMAIN skill_gaps}

PhasesWith(name) == {phase \in {Phase1, Phase2, Phase3} : name \in Range(phase)}

----------------------------------------------------------------------------

(* ResourceSuggestAgent._rank_and_deduplicate_resources *)

\* a < b for strings: by code point, a proper prefix first
StrLt(a, b) ==
    \E k \in 1..(Min(Len(a), Len(b)) + 1) :
        /\ \A j \in 1..(k - 1) : a[j] = b[j]
        /\ \/ (k > Len(a) /\ k <= Len(b))
           \/ (k <= Len(a) /\ k <= Len(b) /\ a[k] < b[k])

\* x.rating or 0
RatingOrZero(x) == IF x.rating = None THEN Num(0) ELSE x.rating

\* the sort key (x.rating or 0, x.title) of a is greater than that of b
RankKeyGt(a, b) ==
    \/ RLt(RatingOrZero(b), RatingOrZero(a))
    \/ (RatingOrZero(a) = RatingOrZero(b) /\ StrLt(b.title, a.title))

RankKeyOrder(xs) == [i \in DOMAIN xs, j \in DOMAIN xs |-> RankKeyGt(xs[i], xs[j])]

Reverse(s) == [i \in 1..Len(s) |-> s[Len(s) + 1 - i]]

\* variant: sorted ascending and then reversed
SortResources_ThenReverse(xs) == Reverse(StableSortAsc(xs, RankKeyOrder(xs)))

\* xs.sort(key=lambda x: (x.rating or 0, x.title), reverse=True)
SortResources(xs) == StableSortDesc(xs, RankKeyOrder(xs))

DedupKey(x) == <<Lower(x.title), Lower(x.provider)>>

RECURSIVE UniqueFrom(_, _, _, _)
\* the loop that keeps a resource when its key has not been seen
UniqueFrom(xs, k, seen, unique) ==
    IF k > Len(xs) THEN unique
    ELSE IF DedupKey(xs[k]) \notin seen
    THEN UniqueFrom(xs, k + 1, seen \cup {DedupKey(xs[k])}, Append(unique, xs[k]))
    ELSE UniqueFrom(xs, k + 1, seen, unique)

\* variant: a later resource with a seen key takes the place of the earlier one
Unique_KeepLast(xs) == Reverse(UniqueFrom(Reverse(xs), 1, {}, << >>))

Unique(xs) == UniqueFrom(xs, 1, {}, << >>)

TopCourses == 10
TopCertifications == 5

\* _rank_and_deduplicate_resources
RankAndDeduplicateResources(res) ==
    [res EXCEPT
        !.course_recommendations = Take(SortResources(Unique(@)), TopCourses),
        !.certification_recommendations = Take(SortResources(Unique(@)), TopCertifications)]

MaxPrefix == 3
MaxPasses == 2


Resource(title, provider, rating) == [title |-> title, provider |-> provider, rating |-> rating]

\* two resources with one key and different ratings, two with one sort key and
\* different providers, an unrated one and one rated 0
SampleResources ==
    {Resource(Str_Py, Str_X, Rat(45, 10)), Resource(Str_py, Str_x, Rat(48, 10)),
     Resource(Str_Py, Str_Y, Rat(45, 10)), Resource(Str_Go, Str_X, None),
     Resource(Str_Go, Str_Y, Num(0))}

\* k resources with distinct keys "FA", "FB", ... provider "Z", rated None, 3.0, 4.5 in turn
Fillers(k) ==
    [i \in 1..k |->
        Resource(<<70, 64 + i>>, Str_Z,
                 IF i % 3 = 1 THEN None ELSE IF i % 3 = 2 THEN Num(3) ELSE Rat(45, 10))]

Prefixes == UNION {[1..n -> SampleResources] : n \in 0..MaxPrefix}

\* lists of sample resources before or after a run of fillers that stays under,
\* or goes over, the cut
ResourceLists(cut) ==
    UNION {{p \o Fillers(k), Fillers(k) \o p} : p \in Prefixes, k \in {0, cut - 2, cut + 1}}

RankInputs ==
    {[course_recommendations |-> xs, certification_recommendations |-> << >>] :
        xs \in ResourceLists(TopCourses)}
    \cup
    {[course_recommendations |-> << >>, certification_recommendations |-> xs] :
        xs \in ResourceLists(TopCertifications)}

InitRank ==
    /\ unranked \in RankInputs
    /\ resources = unranked
    /\ passes = 0
    /\ pc = "resources"
    /\ user_profile = None
    /\ NoScoreRun /\ NoMatchRun /\ NoGapRun /\ NoRoadmapRun

\* result = await self._rank_and_deduplicate_resources(result)
CallRankAndDeduplicate ==
    /\ passes < MaxPasses
    /\ resources' = RankAndDeduplicateResources(resources)
    /\ passes' = passes + 1
    /\ pc' = "ranked"
    /\ UNCHANGED <<user_profile, unranked, scoreVars, matchVars, gapVars, roadmapVars>>

NextRank == CallRankAndDeduplicate

SpecRank == InitRank /\ [][NextRank]_vars

\* C10: ranking a result that has been ranked leaves both lists as they are.
C10_Idempotence ==
    [][passes >= 1 => resources' = resources]_vars

HasDuplicateKeys(xs) ==
    \E i, j \in DOMAIN xs : i < j /\ DedupKey(xs[i]) = DedupKey(xs[j])

HasTiedNeighbours(xs) ==
    \E i \in 1..(Len(xs) - 1) : ~RankKeyGt(xs[i], xs[i + 1]) /\ ~RankKeyGt(xs[i + 1], xs[i])

\* A list with duplicates, out of order and longer than the cut was ranked
\* twice; the result holds two neighbours with equal sort keys.
C10_Witness ==
    /\ passes = 2
    /\ HasDuplicateKeys(unranked.certification_recommendations)
    /\ Len(Unique(unranked.certification_recommendations)) > TopCertifications
    /\ Len(resources.certification_recommendations) = TopCertifications
    /\ HasTiedNeighbours(resources.certification_recommendations)
    /\ resources # unranked

\* indices of the resources that are the first of their key in xs
FirstOfKey(xs) ==
    {i \in DOMAIN xs : \A j \in 1..(i - 1) : DedupKey(xs[j]) # DedupKey(xs[i])}

\* ranked is what is left of xs: first of each key, in descending key order, cut
KeepsFirstRanked(ranked, xs, cut) ==
    /\ \A p \in DOMAIN ranked : \E i \in FirstOfKey(xs) : xs[i] = ranked[p]
    /\ \A p, q \in DOMAIN ranked : p < q => DedupKey(ranked[p]) # DedupKey(ranked[q])
    /\ \A p, q \in DOMAIN ranked : p < q => ~RankKeyGt(ranked[q], ranked[p])
    /\ Len(ranked) = Min(Cardinality(FirstOfKey(xs)), cut)
    /\ \A i \in FirstOfKey(xs) :
          (\A p \in DOMAIN ranked : DedupKey(ranked[p]) # DedupKey(xs[i]))
              => \A p \in DOMAIN ranked : ~RankKeyGt(xs[i], ranked[p])

\* C11: a ranked result holds, for each key (title.lower(), provider.lower()),
\* the first resource of the input with that key whatever the later ratings,
\* in non-increasing (rating or 0, title) order, cut to 10 courses and 5
\* certifications, the resources left out ranking no higher than those kept.
C11_KeepsFirstOfKey ==
    passes >= 1 =>
        /\ KeepsFirstRanked(resources.course_recommendations,
                            unranked.course_recommendations, TopCourses)
        /\ KeepsFirstRanked(resources.certification_recommendations,
                            unranked.certification_recommendations, TopCertifications)

\* A list whose second resource of a key is rated higher than the first was
\* ranked, and the first one is in the result.
C11_Witness ==
    /\ passes >= 1
    /\ \E i, j \in DOMAIN unranked.course_recommendations :
          LET xs == unranked.course_recommendations
          IN /\ i < j
             /\ i \in FirstOfKey(xs)
             /\ DedupKey(xs[i]) = DedupKey(xs[j])
             /\ RLt(RatingOrZero(xs[i]), RatingOrZero(xs[j]))
             /\ \E p \in DOMAIN resources.course_recommendations :
                   resources.course_recommendations[p] = xs[i]
             /\ Len(xs) > TopCourses

----------------------------------------------------------------------------
(* Relations between two scorings of one career *)

\* the skills the role lists, as written in the role record
ListedSkills(c) == Range(c.required_skills) \cup Range(c.preferred_skills)

\* the profile with one more entry in its skills
WithSkill(profile, skill) == [profile EXCEPT !.skills = Append(@, skill)]

SkillsComponent(profile, c) == CalculateMatchScore(profile, c).component_scores.skills

\* C12: for the career scored first (every pair of a profile and a career is),
\* the profile with one more skill that the career lists, everything else the
\* same, has a skills component no lower.
C12_Monotonicity ==
    calls = 1 =>
        \A skill \in ListedSkills(career) :
            RLe(score.component_scores.skills,
                SkillsComponent(WithSkill(user_profile, skill), career))

\* A career was scored for a profile that lacks one of its listed skills, and
\* the skills component is higher with that skill added.
C12_Witness ==
    /\ calls >= 1
    /\ \E skill \in ListedSkills(career) :
          /\ Lower(skill) \notin LowerSet(user_profile.skills)
          /\ user_profile.skills # << >>
          /\ RLt(score.component_scores.skills,
                 SkillsComponent(WithSkill(user_profile, skill), career))

----------------------------------------------------------------------------
(* execute on requests whose profile dict comes unvalidated from the store *)

\* A value of a profile dict: [int |-> n], [str |-> s], None, or Absent when
\* the dict has no such key.
Absent == [absent |-> TRUE]
IsInt(v) == DOMAIN v = {"int"}
IsStr(v) == DOMAIN v = {"str"}

\* user_profile.get(key, default)
GetOr(v, default) == IF v = Absent THEN default ELSE v

\* _determine_experience_level raises TypeError: `<=` on a value that is no number
DetermineExperienceLevelRaises(raw) ==
    LET experience_years == GetOr(raw.experience_years, [int |-> 0])
        current_year == GetOr(raw.current_year, [int |-> 1])
    IN IF IsInt(experience_years)
       THEN experience_years.int = 0 /\ ~IsInt(current_year)
       ELSE TRUE

\* _calculate_match_score raises: .lower() on an education_level that is no
\* string, or the range comparison on an experience_years that is no number
CalculateMatchScoreRaises(raw) ==
    \/ ~IsStr(GetOr(raw.education_level, [str |-> Str_empty]))
    \/ ~IsInt(GetOr(raw.experience_years, [int |-> 0]))

\* _get_user_skill_proficiency raises in its loop over the skills
GetUserSkillProficiencyRaises(raw) ==
    /\ raw.skills # << >>
    /\ \/ ~IsStr(GetOr(raw.education_level, [str |-> Str_bachelor]))
       \/ ~IsInt(GetOr(raw.experience_years, [int |-> 0]))

\* the profile as the scoring code reads it when nothing raises; a value that
\* would raise is one the code never reads then, and its default stands in
Typed(raw, default_education) ==
    LET education_level == GetOr(raw.education_level, [str |-> default_education])
        experience_years == GetOr(raw.experience_years, [int |-> 0])
    IN [skills |-> raw.skills, interests |-> raw.interests,
        preferred_industries |-> raw.preferred_industries,
        education_level |-> IF IsStr(education_level) THEN education_level.str
                            ELSE default_education,
        experience_years |-> IF IsInt(experience_years) THEN experience_years.int ELSE 0]

\* CareerMatchAgent._process from the loop on, for candidate_careers = catalog
ProcessCareerMatch(profile, catalog, gemini_ok) ==
    LET Passes(c) == PassesThreshold(CalculateMatchScore(profile, c).total_score)
        passing == SelectSeq(catalog, Passes)
        matches == [i \in 1..Len(passing) |->
                       CareerMatch(passing[i], CalculateMatchScore(profile, passing[i]))]
        sorted == SortMatches(matches)
    IN [career_matches |-> LimitMatches(sorted),
        matching_methodology |-> "methodology",
        confidence_scores |-> CalculateMatchingConfidence(sorted),
        market_insights |-> IF sorted # << >> THEN GenerateMarketInsights(gemini_ok)
                            ELSE EmptyDict]

\* CareerMatchAgent.execute: _query_careers gives the catalog, or [] when the
\* query raised; an exception of _process gives the failed output
CareerMatchOutput(raw, catalog, catalog_ok, gemini_ok) ==
    LET candidate_careers == IF catalog_ok THEN catalog ELSE << >>
    IN IF DetermineExperienceLevelRaises(raw)
       THEN FailedOutput("career_match_agent", "TypeError")
       ELSE IF candidate_careers # << >> /\ CalculateMatchScoreRaises(raw)
       THEN FailedOutput("career_match_agent", "TypeError or AttributeError")
       ELSE LET res == ProcessCareerMatch(Typed(raw, Str_empty), candidate_careers,
                                          gemini_ok)
            IN SucceededOutput("career_match_agent", res, res.confidence_scores.overall)

\* SkillGapAgent.execute
RawSkillGapOutput(raw, target, gemini_ok) ==
    IF target # None /\ GetUserSkillProficiencyRaises(raw)
    THEN FailedOutput("skill_gap_agent", "TypeError or AttributeError")
    ELSE SkillGapOutput(Typed(raw, Str_bachelor), target, gemini_ok)

MaxRequestCatalog == 2

RawProfiles ==
    [skills : {<< >>, <<Str_python, Str_sql>>},
     interests : {<<Str_data>>},
     preferred_industries : {<<Str_Technology>>},
     education_level : {[str |-> Str_Bachelor], None, Absent},
     experience_years : {[int |-> 0], [int |-> 2], [str |-> Str_five], None, Absent},
     current_year : {[int |-> 1], [int |-> 0 - 1], None, Absent}]

Catalogs == UNION {[1..n -> {DataAnalyst, BankManager}] : n \in 0..MaxRequestCatalog}

InitExecute ==
    /\ user_profile \in RawProfiles
    /\ pc = "request"
    /\ NoScoreRun /\ NoMatchRun /\ NoGapRun /\ NoRoadmapRun /\ NoRankRun

ExecuteCareerMatch(catalog, catalog_ok, gemini_ok) ==
    /\ pc = "request"
    /\ output' = CareerMatchOutput(user_profile, catalog, catalog_ok, gemini_ok)
    /\ request' = [agent |-> "career_match_agent", catalog |-> catalog,
                   catalog_ok |-> catalog_ok, gemini_ok |-> gemini_ok]
    /\ pc' = "done"
    /\ UNCHANGED <<user_profile, target_career, skill_proficiency, scoreVars,
                   matchVars, roadmapVars, rankVars>>

ExecuteSkillGapRequest(target, gemini_ok) ==
    /\ pc = "request"
    /\ output' = RawSkillGapOutput(user_profile, target, gemini_ok)
    /\ request' = [agent |-> "skill_gap_agent", target |-> target,
                   gemini_ok |-> gemini_ok]
    /\ pc' = "done"
    /\ UNCHANGED <<user_profile, target_career, skill_proficiency, scoreVars,
                   matchVars, roadmapVars, rankVars>>

NextExecute ==
    \/ \E catalog \in Catalogs, catalog_ok, gemini_ok \in BOOLEAN :
          ExecuteCareerMatch(catalog, catalog_ok, gemini_ok)
    \/ \E target \in {t \in TargetCareers : t.id \in {"t3", "t4"}} \cup {None},
          gemini_ok \in BOOLEAN :
          ExecuteSkillGapRequest(target, gemini_ok)

SpecExecute == InitExecute /\ [][NextExecute]_vars

----------------------------------------------------------------------------

(* Profiles whose lists differ only in letter case and repetition *)

Upper(s) == [i \in 1..Len(s) |-> IF IsLowerCase(s[i]) THEN s[i] - 32 ELSE s[i]]

\* the entries of xs in upper case, xs twice over, and xs followed by its
\* entries in upper case in the opposite order
Respelled(xs) ==
    LET upper == [i \in 1..Len(xs) |-> Upper(xs[i])]
    IN {upper, xs \o xs, xs \o Reverse(upper)}

\* C18: the match score of a (profile, career) pair, taken at the first scoring
\* (every pair is scored first), is the same when entries of skills, interests or
\* preferred_industries are changed in letter case or repeated.
C18_CaseInsensitiveSets ==
    calls = 1 =>
        LET components == score.component_scores
            skill_scores ==
                {SkillScore(LowerSet(skills), LowerSet(career.required_skills),
                            LowerSet(career.preferred_skills)) :
                    skills \in Respelled(user_profile.skills)}
            interest_scores ==
                {InterestScore(LowerSet(interests), career) :
                    interests \in Respelled(user_profile.interests)}
            industry_scores ==
                {IndustryScore(LowerSet(industries), career) :
                    industries \in Respelled(user_profile.preferred_industries)}
        IN /\ skill_scores = {components.skills}
           /\ interest_scores = {components.interests}
           /\ industry_scores = {components.industry}
           /\ \A s \in skill_scores, i \in interest_scores, d \in industry_scores :
                  Round(WeightedTotal(s, i, d, components.education,
                                      components.experience), 2) = score.total_score

\* A profile that spells one skill in two cases was scored for a career that
\* lists the skill, and its lists have respellings that differ from them.
C18_Witness ==
    /\ calls >= 1
    /\ \E i, j \in DOMAIN user_profile.skills :
          /\ user_profile.skills[i] # user_profile.skills[j]
          /\ Lower(user_profile.skills[i]) = Lower(user_profile.skills[j])
          /\ Lower(user_profile.skills[i]) \in LowerSet(career.required_skills)
    /\ user_profile.interests # << >> /\ user_profile.preferred_industries # << >>
    /\ RLt(Num(0), score.component_scores.skills)
    /\ RLt(Num(0), score.component_scores.interests)
    /\ \A xs \in Respelled(user_profile.skills) : xs # user_profile.skills

----------------------------------------------------------------------------

(* The requirement list of the target career of a skill-gap request *)

\* the positions of reqs that hold the lower-cased name
PositionsOf(reqs, name) == {i \in DOMAIN reqs : reqs[i].name = name}

\* C19 as stated: the requirement list holds each lower-cased skill name at
\* most once, and a skill of both lists appears once, as required (9.0).
C19_Original ==
    (pc = "done" /\ target_career # None) =>
        LET reqs == GetCareerSkillRequirements(target_career)
        IN /\ \A i, j \in DOMAIN reqs : reqs[i].name = reqs[j].name => i = j
           /\ \A name \in LowerSet(target_career.required_skills)
                          \cap LowerSet(target_career.preferred_skills) :
                  \E i \in DOMAIN reqs :
                      /\ PositionsOf(reqs, name) = {i}
                      /\ reqs[i].is_required
                      /\ reqs[i].importance_level = Num(9)

----------------------------------------------------------------------------

(* The clauses of recommendation_reason *)

SkillClause ==
    IF RLt(Num(70), score.component_scores.skills) THEN "Strong skill alignment"
    ELSE IF RLt(Num(40), score.component_scores.skills)
         THEN "Good skill foundation with room to grow"
         ELSE "Developing skills required"

\* the four optional clauses in the order of the tests, each with whether its
\* threshold holds for the scored career
OptionalClauses ==
    <<[text |-> "aligns with your interests",
       holds |-> RLt(Num(60), score.component_scores.interests)],
      [text |-> "matches your preferred industry",
       holds |-> RLt(Num(80), score.component_scores.industry)],
      [text |-> "education requirements are met",
       holds |-> RLt(Num(80), score.component_scores.education)],
      [text |-> "experience level is appropriate",
       holds |-> RLt(Num(80), score.component_scores.experience)]>>

GrowthClause == " High growth potential in the market."

\* C22 as stated: the reason holds the skill clause selected by the skill
\* score, every optional clause whose threshold holds, and the growth clause
\* exactly when growth_potential > 7.
C22_Original ==
    calls >= 1 =>
        /\ SkillClause \in Range(score.reasoning)
        /\ \A k \in 1..4 :
              OptionalClauses[k].holds => OptionalClauses[k].text \in Range(score.reasoning)
        /\ GrowthClause \in Range(score.reasoning) <=> career.growth_potential > 7

\* C22 amended: the reason starts with the skill clause selected by the skill
\* score; an optional clause is in it exactly when its threshold holds and
\* fewer than two optional clauses before it hold; the growth clause is in it,
\* last, exactly when growth_potential > 7.
C22_Reasoning ==
    calls >= 1 =>
        /\ score.reasoning[1] = SkillClause
        /\ \A k \in 1..4 :
              OptionalClauses[k].text \in Range(score.reasoning) <=>
                  /\ OptionalClauses[k].holds
                  /\ Cardinality({j \in 1..(k - 1) : OptionalClauses[j].holds}) < 2
        /\ GrowthClause \in Range(score.reasoning) <=> career.growth_potential > 7
        /\ career.growth_potential > 7 => score.reasoning[Len(score.reasoning)] = GrowthClause

\* A career was scored with all four optional thresholds met: the reason
\* holds the interest and industry clauses and leaves out the other two.
C22_Witness ==
    /\ calls >= 1
    /\ \A k \in 1..4 : OptionalClauses[k].holds
    /\ "education requirements are met" \notin Range(score.reasoning)
    /\ "matches your preferred industry" \in Range(score.reasoning)

----------------------------------------------------------------------------

(* The education component against a table of ranks *)

\* 100, 70 or 40 from the rank of the profile's education_level and of the
\* career's first education requirement (bachelor when it lists none), both
\* lower-cased and looked up in ranks, 3 when absent from it
EducationComponent(ranks) ==
    LET RankOf(level) == IF Lower(level) \in DOMAIN ranks THEN ranks[Lower(level)] ELSE 3
        user_rank == RankOf(user_profile.education_level)
        required_rank == IF career.education_requirements = << >> THEN RankOf(Str_bachelor)
                         ELSE RankOf(career.education_requirements[1])
    IN IF user_rank >= required_rank THEN 100
       ELSE IF required_rank - user_rank = 1 THEN 70 ELSE 40

----------------------------------------------------------------------------

(* execute from the result of _process to the output: the confidence scorers *)

\* CareerMatchAgent._calculate_confidence
CareerMatchConfidence(res) ==
    IF "confidence_scores" \in DOMAIN res /\ "overall" \in DOMAIN res.confidence_scores
    THEN res.confidence_scores.overall
    ELSE Rat(5, 10)

\* sum(c.rating or 0 for c in xs) / len(xs)
AverageRating(xs) ==
    RDiv(RSum([i \in 1..Len(xs) |-> RatingOrZero(xs[i])]), Num(Len(xs)))

\* variant: resource_quality + ai_bonus without min(..., 1.0)
ResourceConfidence_NoCap(res) ==
    LET courses == res.course_recommendations
        certifications == res.certification_recommendations
        from_courses == IF courses # << >>
                        THEN RMul(RDiv(AverageRating(courses), Num(5)), Rat(4, 10))
                        ELSE Num(0)
        from_certifications ==
            IF certifications # << >>
            THEN RMul(RDiv(AverageRating(certifications), Num(5)), Rat(3, 10))
            ELSE Num(0)
        from_internships == IF res.internship_opportunities # << >> THEN Rat(3, 10)
                            ELSE Num(0)
        ai_bonus == IF "platforms" \in DOMAIN res.ai_suggestions
                       /\ res.ai_suggestions.platforms # << >>
                    THEN Rat(2, 10) ELSE Num(0)
    IN Round(RAdd(RAdd(RAdd(from_courses, from_certifications), from_internships),
                  ai_bonus), 3)

\* ResourceSuggestAgent._calculate_confidence
ResourceConfidence(res) ==
    LET courses == res.course_recommendations
        certifications == res.certification_recommendations
        from_courses == IF courses # << >>
                        THEN RMul(RDiv(AverageRating(courses), Num(5)), Rat(4, 10))
                        ELSE Num(0)
        from_certifications ==
            IF certifications # << >>
            THEN RMul(RDiv(AverageRating(certifications), Num(5)), Rat(3, 10))
            ELSE Num(0)
        from_internships == IF res.internship_opportunities # << >> THEN Rat(3, 10)
                            ELSE Num(0)
        resource_quality == RAdd(RAdd(from_courses, from_certifications), from_internships)
        ai_bonus == IF "platforms" \in DOMAIN res.ai_suggestions
                       /\ res.ai_suggestions.platforms # << >>
                    THEN Rat(2, 10) ELSE Num(0)
    IN Round(RMin(RAdd(resource_quality, ai_bonus), Num(1)), 3)

\* self._calculate_confidence(result) of the agent that ran
CalculateConfidence(agent, res) ==
    CASE agent = "career_match_agent" -> CareerMatchConfidence(res)
      [] agent = "skill_gap_agent" -> SkillGapConfidence(res)
      [] agent = "resource_suggest_agent" -> ResourceConfidence(res)

MaxMatches == 5

\* results of the three _process methods: career matches of catalogs up to
\* MaxMatches long, skill-gap analyses, and ranked resource lists with or
\* without internships and suggested platforms
AgentResults ==
    LET catalogs == UNION {[1..n -> MatchCareers] : n \in 0..MaxMatches}
        gap_profiles == {p \in GapProfiles : p.experience_years = 1
                                             /\ p.education_level = Str_Bachelor}
        rated == {Resource(Str_Go, Str_Z, Num(5)), Resource(Str_Py, Str_X, Rat(45, 10)),
                  Resource(Str_Go, Str_X, None)}
        lists == {SortResources(Unique(xs)) : xs \in UNION {[1..n -> rated] : n \in 0..2}}
        suggestions == {[platforms |-> <<"platform">>, affordable_options |-> << >>],
                        [platforms |-> << >>, affordable_options |-> << >>],
                        [error |-> "Could not generate AI suggestions"]}
    IN {[agent |-> "career_match_agent", result |-> ProcessCareerMatch(p, c, g)] :
            p \in MatchProfiles, c \in catalogs, g \in BOOLEAN}
       \cup
       {[agent |-> "skill_gap_agent", result |-> ProcessSkillGaps(p, t, g)] :
            p \in gap_profiles, t \in TargetCareers, g \in BOOLEAN}
       \cup
       {[agent |-> "resource_suggest_agent",
         result |-> [course_recommendations |-> courses,
                     certification_recommendations |-> certifications,
                     internship_opportunities |-> internships,
                     ai_suggestions |-> ai]] :
            courses \in lists, certifications \in lists,
            internships \in {<< >>, <<"internship">>}, ai \in suggestions}

InitConfidence ==
    /\ request \in AgentResults
    /\ output = None
    /\ target_career = None /\ skill_proficiency = None
    /\ user_profile = None
    /\ pc = "result"
    /\ NoScoreRun /\ NoMatchRun /\ NoRoadmapRun /\ NoRankRun

\* output = AgentOutput(success=True, result=result,
\*                      confidence_score=self._calculate_confidence(result), ...)
CreateOutput ==
    /\ pc = "result"
    /\ output' = SucceededOutput(request.agent, request.result,
                                 CalculateConfidence(request.agent, request.result))
    /\ pc' = "done"
    /\ UNCHANGED <<user_profile, target_career, skill_proficiency, request, scoreVars,
                   matchVars, roadmapVars, rankVars>>

NextConfidence == CreateOutput

SpecConfidence == InitConfidence /\ [][NextConfidence]_vars

\* the result holds no match, no skill gap, or no course, certification or internship
IsEmptyResult(agent, res) ==
    CASE agent = "career_match_agent" -> res.career_matches = << >>
      [] agent = "skill_gap_agent" -> res.skill_gaps = << >>
      [] agent = "resource_suggest_agent" ->
            /\ res.course_recommendations = << >>
            /\ res.certification_recommendations = << >>
            /\ res.internship_opportunities = << >>

HasPlatforms(res) ==
    "platforms" \in DOMAIN res.ai_suggestions /\ res.ai_suggestions.platforms # << >>

\* C17 as stated: every confidence score lies in [0,1], and an empty result
\* scores 0.0 (career match, resources) or 0.3 (skill gap).
C17_Original ==
    pc = "done" =>
        /\ InRange(output.confidence_score, 0, 1)
        /\ IsEmptyResult(request.agent, request.result) =>
              output.confidence_score =
                  IF request.agent = "skill_gap_agent" THEN Rat(3, 10) ELSE Num(0)

\* C17 amended: every confidence score lies in [0,1]; an empty result scores
\* 0.0 for career match, 0.3 for skill gap, and for resources 0.0 when no
\* platform is suggested and 0.2 when one is.
C17_ConfidenceBounds ==
    pc = "done" =>
        /\ InRange(output.confidence_score, 0, 1)
        /\ IsEmptyResult(request.agent, request.result) =>
              output.confidence_score =
                  CASE request.agent = "career_match_agent" -> Num(0)
                    [] request.agent = "skill_gap_agent" -> Rat(3, 10)
                    [] request.agent = "resource_suggest_agent" ->
                          IF HasPlatforms(request.result) THEN Rat(2, 10) ELSE Num(0)

\* An empty resource result with a suggested platform has been scored.
C17_Witness ==
    /\ pc = "done"
    /\ request.agent = "resource_suggest_agent"
    /\ IsEmptyResult(request.agent, request.result)
    /\ HasPlatforms(request.result)
    /\ output.success

----------------------------------------------------------------------------

(* Executions of the two agents that interleave at their await points *)

MaxTasks == 2

\* variant: the locals of _process kept on the agent instance, one slot for
\* every execution
Frame_OnInstance(t) == 1

\* the coroutine frame that holds the locals of execution t (career_matches,
\* user_skills, skill_gaps, result): its own
Frame(t) == t

\* the input_data of an execution, with the rows the catalog returns to it and
\* whether text generation answers it
TaskRequests ==
    {[agent |-> "career_match_agent", user_profile |-> p, catalog |-> c, gemini_ok |-> g] :
        p \in {q \in Profiles : /\ q.skills \in {<<Str_python, Str_sql>>,
                                                  <<Str_Python, Str_react, Str_python>>}
                                /\ q.interests = <<Str_web_development, Str_Music>>
                                /\ q.preferred_industries = <<Str_Technology>>
                                /\ q.education_level = Str_Bachelor
                                /\ q.experience_years = 2},
        c \in {<<DataAnalyst, WebDeveloper>>, <<BankManager>>}, g \in {TRUE}}
    \cup
    {[agent |-> "skill_gap_agent", user_profile |-> p, target_career |-> t,
      gemini_ok |-> g] :
        p \in {q \in GapProfiles : /\ q.skills = <<Str_Python, Str_sql>>
                                   /\ q.education_level = Str_Bachelor
                                   /\ q.experience_years = 1},
        t \in {t \in TargetCareers : t.id = "t3"} \cup {None},
        g \in {FALSE}}

InitParallel ==
    /\ request \in [1..MaxTasks -> TaskRequests]
    /\ user_profile = [t \in 1..MaxTasks |-> request[t].user_profile]
    /\ pc = [t \in 1..MaxTasks |-> "start"]
    /\ n_scored = [t \in 1..MaxTasks |-> 0]
    /\ career_matches = [t \in 1..MaxTasks |-> << >>]
    /\ result = [t \in 1..MaxTasks |-> None]
    /\ skill_proficiency = [t \in 1..MaxTasks |-> None]
    /\ skill_gaps = [t \in 1..MaxTasks |-> << >>]
    /\ output = [t \in 1..MaxTasks |-> None]
    /\ target_career = None /\ learning_roadmap = None
    /\ NoScoreRun /\ NoRankRun

\* CareerMatchAgent._process up to the return of `await self._query_careers(...)`
TaskQueryCareers(t) ==
    /\ pc[t] = "start" /\ request[t].agent = "career_match_agent"
    /\ result' = [result EXCEPT ![Frame(t)] =
                     [career_matches |-> << >>, matching_methodology |-> "",
                      confidence_scores |-> EmptyDict, market_insights |-> EmptyDict]]
    /\ career_matches' = [career_matches EXCEPT ![Frame(t)] = << >>]
    /\ n_scored' = [n_scored EXCEPT ![Frame(t)] = 0]
    /\ pc' = [pc EXCEPT ![t] = "loop"]
    /\ UNCHANGED <<user_profile, request, output, target_career, skill_proficiency,
                   scoreVars, roadmapVars, rankVars>>

\* one iteration of `for career in candidate_careers`, up to the return of
\* `await self._calculate_match_score(user_profile, career)` and the append
TaskScoreCandidate(t) ==
    /\ pc[t] = "loop" /\ n_scored[Frame(t)] < Len(request[t].catalog)
    /\ LET c == request[t].catalog[n_scored[Frame(t)] + 1]
           match_score == CalculateMatchScore(user_profile[t], c)
       IN career_matches' =
              IF PassesThreshold(match_score.total_score)
              THEN [career_matches EXCEPT ![Frame(t)] = Append(@, CareerMatch(c, match_score))]
              ELSE career_matches
    /\ n_scored' = [n_scored EXCEPT ![Frame(t)] = @ + 1]
    /\ UNCHANGED <<user_profile, request, pc, result, output, target_career,
                   skill_proficiency, scoreVars, roadmapVars, rankVars>>

\* after the loop: sort, cut, insights, methodology, confidence, and the
\* AgentOutput of execute
TaskFinishCareerMatch(t) ==
    /\ pc[t] = "loop" /\ n_scored[Frame(t)] >= Len(request[t].catalog)
    /\ LET sorted == SortMatches(career_matches[Frame(t)])
           res == [career_matches |-> LimitMatches(sorted),
                   matching_methodology |-> "methodology",
                   confidence_scores |-> CalculateMatchingConfidence(sorted),
                   market_insights |-> IF sorted # << >>
                                       THEN GenerateMarketInsights(request[t].gemini_ok)
                                       ELSE EmptyDict]
       IN /\ career_matches' = [career_matches EXCEPT ![Frame(t)] = sorted]
          /\ result' = [result EXCEPT ![Frame(t)] = res]
          /\ output' = [output EXCEPT ![t] =
                           SucceededOutput("career_match_agent", res,
                                           CareerMatchConfidence(res))]
    /\ pc' = [pc EXCEPT ![t] = "done"]
    /\ UNCHANGED <<user_profile, request, n_scored, target_career, skill_proficiency,
                   scoreVars, roadmapVars, rankVars>>

\* SkillGapAgent._process up to the return of
\* `await self._get_user_skill_proficiency(user_profile)`, or its ValueError
TaskGetProficiency(t) ==
    /\ pc[t] = "start" /\ request[t].agent = "skill_gap_agent"
    /\ IF request[t].target_career = None
       THEN /\ output' = [output EXCEPT ![t] =
                   FailedOutput("skill_gap_agent",
                                "target_career is required for skill gap analysis")]
            /\ pc' = [pc EXCEPT ![t] = "done"]
            /\ UNCHANGED skill_proficiency
       ELSE /\ skill_proficiency' = [skill_proficiency EXCEPT ![Frame(t)] =
                                        GetUserSkillProficiency(user_profile[t])]
            /\ pc' = [pc EXCEPT ![t] = "gaps"]
            /\ UNCHANGED output
    /\ UNCHANGED <<user_profile, request, target_career, scoreVars, matchVars,
                   roadmapVars, rankVars>>

\* the requirements, the gap of each against user_skills, the readiness, roadmap,
\* priorities, time estimates and recommendations, and the AgentOutput of execute
TaskFinishSkillGap(t) ==
    /\ pc[t] = "gaps"
    /\ LET career_skills == GetCareerSkillRequirements(request[t].target_career)
           gaps == [i \in 1..Len(career_skills) |->
                       AnalyzeSingleSkillGap(career_skills[i],
                                             skill_proficiency[Frame(t)])]
           res == [skill_gaps |-> gaps,
                   overall_readiness |-> CalculateOverallReadiness(gaps),
                   learning_roadmap |-> CreateLearningRoadmap(gaps),
                   priority_skills |-> IdentifyPrioritySkills(gaps),
                   time_estimates |-> EstimateLearningTime(gaps),
                   ai_recommendations |->
                       GenerateSkillRecommendations(request[t].gemini_ok)]
       IN /\ skill_gaps' = [skill_gaps EXCEPT ![Frame(t)] = gaps]
          /\ output' = [output EXCEPT ![t] =
                IF \A i \in DOMAIN gaps : ValidSkillGap(gaps[i])
                THEN SucceededOutput("skill_gap_agent", res, SkillGapConfidence(res))
                ELSE FailedOutput("skill_gap_agent", "validation error")]
    /\ pc' = [pc EXCEPT ![t] = "done"]
    /\ UNCHANGED <<user_profile, request, target_career, skill_proficiency,
                   learning_roadmap, scoreVars, matchVars, rankVars>>

NextParallel ==
    \E t \in 1..MaxTasks :
        \/ TaskQueryCareers(t)
        \/ TaskScoreCandidate(t)
        \/ TaskFinishCareerMatch(t)
        \/ TaskGetProficiency(t)
        \/ TaskFinishSkillGap(t)

SpecParallel == InitParallel /\ [][NextParallel]_vars

\* the output of execute on the request when no other execution runs
OutputAlone(req) ==
    IF req.agent = "career_match_agent"
    THEN LET res == ProcessCareerMatch(req.user_profile, req.catalog, req.gemini_ok)
         IN SucceededOutput("career_match_agent", res, CareerMatchConfidence(res))
    ELSE SkillGapOutput(req.user_profile, req.target_career, req.gemini_ok)

\* C20: in every interleaving of the executions at their await points, each
\* finished execution's output is the one its request produces when run alone,
\* and every execution's input is as it was submitted.
C20_Isolation ==
    (DOMAIN pc = 1..MaxTasks) =>
        \A t \in 1..MaxTasks :
            /\ user_profile[t] = request[t].user_profile
            /\ pc[t] = "done" => output[t] = OutputAlone(request[t])

\* An execution has finished with matches while another execution of the same
\* agent, for another profile, is in the middle of its scoring loop.
C20_Witness ==
    /\ DOMAIN pc = 1..MaxTasks
    /\ \E t, u \in 1..MaxTasks :
          /\ t # u
          /\ request[t].agent = "career_match_agent"
          /\ request[u].agent = "career_match_agent"
          /\ request[t].user_profile # request[u].user_profile
          /\ pc[t] = "done" /\ output[t].success
          /\ output[t].result.career_matches # << >>
          /\ pc[u] = "loop"
          /\ n_scored[u] = 1 /\ Len(request[u].catalog) = 2
          /\ career_matches[u] # << >>

----------------------------------------------------------------------------

(* Failures reported by execute *)

\* the request was a career-match request whose profile makes every call of
\* _calculate_match_score raise, on a catalog that was read and is not empty
ScoringRaised ==
    /\ pc = "done" /\ request.agent = "career_match_agent"
    /\ request.catalog_ok /\ request.catalog # << >>
    /\ ~DetermineExperienceLevelRaises(user_profile)
    /\ CalculateMatchScoreRaises(user_profile)

\* C13: when scoring a candidate raises, the candidate is skipped and the call
\* still succeeds with the matches of the candidates whose scoring did not raise.
C13_Original ==
    ScoringRaised => output.success /\ output.result.career_matches = << >>

\* a career-match request whose catalog query failed
CatalogFailed ==
    /\ pc = "done" /\ request.agent = "career_match_agent"
    /\ ~request.catalog_ok
    /\ ~DetermineExperienceLevelRaises(user_profile)

\* a career-match request with matches whose text generation failed
TextGenerationFailed ==
    /\ pc = "done" /\ request.agent = "career_match_agent"
    /\ request.catalog_ok /\ ~request.gemini_ok
    /\ output.success /\ output.result.career_matches # << >>

\* C15: after a catalog failure the call succeeds with an empty match list,
\* after a text-generation failure it succeeds without the narrative fields
\* and with the matches and confidence scores it has when generation works;
\* in both cases the output is marked: it differs from the output of the same
\* request served without the failure (for the catalog: by an empty catalog).
C15_Original ==
    /\ CatalogFailed =>
          /\ output.success
          /\ output.result.career_matches = << >>
          /\ output # CareerMatchOutput(user_profile, << >>, TRUE, request.gemini_ok)
    /\ TextGenerationFailed =>
          LET healthy == CareerMatchOutput(user_profile, request.catalog, TRUE, TRUE)
          IN /\ "market_analysis" \notin DOMAIN output.result.market_insights
             /\ output.result.career_matches = healthy.result.career_matches
             /\ output.result.confidence_scores = healthy.result.confidence_scores
             /\ output.confidence_score = healthy.confidence_score
             /\ output # healthy

\* the only malformed values of the request's profile are an experience_years
\* that is no number and a current_year outside 1..6
AdvisoryValuesMalformed ==
    /\ pc = "done"
    /\ request.agent = "skill_gap_agent" => request.target # None
    /\ IsStr(GetOr(user_profile.education_level, [str |-> Str_empty]))
    /\ IsInt(GetOr(user_profile.current_year, [int |-> 1]))
    /\ user_profile.experience_years # None
    /\ \/ IsStr(user_profile.experience_years)
       \/ (IsInt(user_profile.current_year) /\ user_profile.current_year.int \notin 1..6)

\* C16: a request whose profile carries a non-numeric experience_years or an
\* out-of-range current_year, and is well formed otherwise, does not fail.
C16_Original ==
    AdvisoryValuesMalformed => output.success

\* C14: a skill-gap request without a target role ends in an unsuccessful
\* output that carries an error message and an empty result: no gaps, no
\* readiness and no roadmap are made for a role put in its place.
C14_MissingTargetReported ==
    (pc = "done" /\ target_career = None) =>
        /\ ~output.success
        /\ output.error_message # None
        /\ output.result = EmptyDict
        /\ skill_proficiency = None

\* A request of a profile with skills and no target role has been executed.
C14_Witness ==
    /\ pc = "done" /\ target_career = None
    /\ output # None
    /\ user_profile.skills # << >>

----------------------------------------------------------------------------
(* The proficiency estimator on stored profiles *)

\* base(education_level) of the stated table
StatedBase(level) ==
    CASE Lower(level) = Str_high_hyphen_school -> Num(2)
      [] Lower(level) = Str_diploma -> Num(3)
      [] Lower(level) = Str_bachelor -> Num(4)
      [] Lower(level) = Str_master -> Num(5)
      [] Lower(level) = Str_phd -> Num(6)
      [] OTHER -> Num(4)

\* C24 as stated: for a profile whose experience_years is an integer the
\* estimator never raises, whatever the education_level, and the analysis
\* reports for each listed skill min(base + min(experience_years * 0.5, 3.0) +
\* skill_type_modifier, 10.0) rounded to 1 decimal, base 4.0 when the education
\* level is not one of the five.
C24_Original ==
    (/\ pc = "done" /\ request # None /\ request.agent = "skill_gap_agent"
     /\ request.target # None
     /\ IsInt(GetOr(user_profile.experience_years, [int |-> 0]))) =>
        /\ output.success
        /\ LET education == GetOr(user_profile.education_level, [str |-> Str_bachelor])
               base == IF IsStr(education) THEN StatedBase(education.str) ELSE Num(4)
               years == GetOr(user_profile.experience_years, [int |-> 0]).int
               gaps == output.result.skill_gaps
           IN \A i \in DOMAIN gaps :
                  \A k \in DOMAIN user_profile.skills :
                      Lower(user_profile.skills[k]) = gaps[i].skill_name =>
                          gaps[i].current_proficiency =
                              Round(RMin(RAdd(RAdd(base, RMin(RMul(Num(years), Rat(5, 10)),
                                                              Num(3))),
                                              GetSkillTypeModifier(user_profile.skills[k])),
                                         Num(10)), 1)

----------------------------------------------------------------------------
(* The totals of the time estimate *)

RECURSIVE BreakdownSum(_, _, _)
\* the sum of the field over the entries of skill_breakdown named in names
BreakdownSum(breakdown, names, field) ==
    IF names = {} THEN Num(0)
    ELSE LET name == CHOOSE name \in names : TRUE
         IN RAdd(breakdown[name][field], BreakdownSum(breakdown, names \ {name}, field))

TimeEstimates == output.result.time_estimates

\* C25 as stated: total_weeks is the sum of the weeks, and total_hours the sum
\* of the hours, that skill_breakdown reports.
C25_Original ==
    (pc = "done" /\ output.success) =>
        LET breakdown == TimeEstimates.skill_breakdown
        IN /\ TimeEstimates.total_weeks = BreakdownSum(breakdown, DOMAIN breakdown, "weeks")
           /\ TimeEstimates.total_hours = BreakdownSum(breakdown, DOMAIN breakdown, "hours")

\* C25 amended: total_hours is the sum of the hours that skill_breakdown
\* reports; total_weeks is the sum over the gaps of the unrounded weeks
\* max(hours / 10, 1), rounded once, so it differs from the sum of the reported
\* weeks by less than half a week per gap plus a half.
C25_Totals ==
    (pc = "done" /\ output.success) =>
        LET breakdown == TimeEstimates.skill_breakdown
            gaps == output.result.skill_gaps
        IN /\ TimeEstimates.total_hours = BreakdownSum(breakdown, DOMAIN breakdown, "hours")
           /\ TimeEstimates.total_weeks =
                  Round(RSum([i \in 1..Len(gaps) |-> EstimatedWeeks(gaps[i])]), 0)

\* An analysis whose total_weeks is not the sum of the reported weeks although
\* no skill name occurs twice among the gaps.
C25_Witness ==
    /\ pc = "done" /\ output.success
    /\ \A i, j \in DOMAIN output.result.skill_gaps :
          output.result.skill_gaps[i].skill_name = output.result.skill_gaps[j].skill_name
              => i = j
    /\ TimeEstimates.total_weeks #
           BreakdownSum(TimeEstimates.skill_breakdown,
                        DOMAIN TimeEstimates.skill_breakdown, "weeks")

----------------------------------------------------------------------------
(* BaseAgent.execute, step by step, on any subclass *)

\* an input_data with the user_id given or empty, and what the subclass's
\* _process and _calculate_confidence do with it: return a value or raise
SubclassCalls ==
    [agent_name : {"career_match_agent", "skill_gap_agent", "resource_suggest_agent"},
     user_id : {"", "u1"},
     process : {[returns |-> r] : r \in {EmptyDict, [career_matches |-> << >>],
                                          [skill_gaps |-> << >>, overall_readiness |-> Num(100)]}}
               \cup {[raises |-> m] : m \in {"target_career is required for skill gap analysis",
                                             "TypeError"}},
     confidence : {[returns |-> c] : c \in {Num(0), Rat(3, 10), Rat(8, 10), Num(1)}}
                  \cup {[raises |-> "KeyError"]}]

InitBase ==
    /\ request \in SubclassCalls
    /\ pc = "validate"
    /\ result = None /\ output = None
    /\ n_scored = 0 /\ career_matches = << >>
    /\ user_profile = None /\ target_career = None /\ skill_proficiency = None
    /\ NoScoreRun /\ NoRoadmapRun /\ NoRankRun

\* self._validate_input(input_data), and the except block when it raises
ValidateInput ==
    /\ pc = "validate"
    /\ IF request.user_id = ""
       THEN /\ output' = FailedOutput(request.agent_name, "user_id is required")
            /\ pc' = "done"
       ELSE /\ output' = output
            /\ pc' = "process"
    /\ UNCHANGED <<user_profile, request, result, n_scored, career_matches, target_career,
                   skill_proficiency, scoreVars, roadmapVars, rankVars>>

\* result = await self._process(input_data), and the except block when it raises
AwaitProcess ==
    /\ pc = "process"
    /\ IF "raises" \in DOMAIN request.process
       THEN /\ output' = FailedOutput(request.agent_name, request.process.raises)
            /\ result' = result
            /\ pc' = "done"
       ELSE /\ result' = request.process.returns
            /\ output' = output
            /\ pc' = "output"
    /\ UNCHANGED <<user_profile, request, n_scored, career_matches, target_career,
                   skill_proficiency, scoreVars, roadmapVars, rankVars>>

\* output = AgentOutput(..., confidence_score=self._calculate_confidence(result), ...)
\* and return, or the except block when the scorer raises
ReturnOutput ==
    /\ pc = "output"
    /\ output' = IF "raises" \in DOMAIN request.confidence
                 THEN FailedOutput(request.agent_name, request.confidence.raises)
                 ELSE SucceededOutput(request.agent_name, result, request.confidence.returns)
    /\ pc' = "done"
    /\ UNCHANGED <<user_profile, request, result, n_scored, career_matches, target_career,
                   skill_proficiency, scoreVars, roadmapVars, rankVars>>

NextBase == ValidateInput \/ AwaitProcess \/ ReturnOutput

SpecBase == InitBase /\ [][NextBase]_vars

\* a step of the execution raised
SomethingRaised ==
    \/ request.user_id = ""
    \/ "raises" \in DOMAIN request.process
    \/ "raises" \in DOMAIN request.confidence

\* C26: execute always ends by returning an output; when validation, _process
\* or the confidence scorer raised, the output has success=False, an empty
\* result, confidence_score 0.0 and an error_message; when success=True,
\* error_message is unset and result is what _process returned.
C26_NeverPropagates ==
    /\ pc \in {"validate", "process", "output", "done"}
    /\ pc # "done" => ENABLED NextBase
    /\ pc = "done" =>
          /\ output # None
          /\ SomethingRaised =>
                /\ ~output.success
                /\ output.result = EmptyDict
                /\ output.confidence_score = Num(0)
                /\ output.error_message # None
                /\ output.error_message.text # << >>
          /\ output.success =>
                /\ ~SomethingRaised
                /\ output.error_message = None
                /\ output.result = request.process.returns
                /\ output.result = result

\* _process returned a result and the confidence scorer raised: the execution
\* has ended with a failure output.
C26_Witness ==
    /\ pc = "done"
    /\ request.user_id # ""
    /\ "returns" \in DOMAIN request.process
    /\ "raises" \in DOMAIN request.confidence
    /\ result = request.process.returns
    /\ ~output.success

----------------------------------------------------------------------------
(* AgentOrchestrator.execute_sequential *)

MaxNames == 3

\* self.agents after the two agents were registered
RegisteredAgents == {"career_match_agent", "skill_gap_agent"}

\* variant: keys already in the context keep their values
UpdateContext_KeepOld(context, res) ==
    [k \in DOMAIN context \cup DOMAIN res |-> IF k \in DOMAIN context THEN context[k] ELSE res[k]]

\* context.update(res)
UpdateContext(context, res) ==
    [k \in DOMAIN context \cup DOMAIN res |-> IF k \in DOMAIN res THEN res[k] ELSE context[k]]

\* the dict an agent's _process returns, its values standing for one of two
\* answers of the services behind it
ResultOf(agent_name, answer) ==
    IF agent_name = "career_match_agent"
    THEN [career_matches |-> answer, market_insights |-> answer]
    ELSE [skill_gaps |-> answer, overall_readiness |-> answer]

\* the arguments of a call: up to MaxNames names, registered or not, and an
\* input_data whose context is empty or already holds keys
SequentialCalls ==
    [agent_names : UNION {[1..n -> RegisteredAgents \cup {"unknown_agent"}] : n \in 0..MaxNames},
     input_data : [context : {<< >>, [session |-> "s1", career_matches |-> "stale"]}]]

\* request is the call's agent_names with current_input, whose context the loop
\* updates in place; first keeps the context as it was at the call; result is
\* the list `results`
InitSequential ==
    /\ request \in SequentialCalls
    /\ first = request.input_data.context
    /\ result = << >>
    /\ output = None
    /\ pc = "loop"
    /\ career = None /\ score = None /\ calls = 0
    /\ n_scored = 0 /\ career_matches = << >>
    /\ user_profile = None /\ target_career = None /\ skill_proficiency = None
    /\ NoRoadmapRun /\ NoRankRun

\* one iteration with a registered name: output = await agent.execute(current_input),
\* results.append(output), and the context update when it succeeded
ExecuteAgent(success, answer) ==
    /\ pc = "loop" /\ Len(result) < Len(request.agent_names)
    /\ LET agent_name == request.agent_names[Len(result) + 1]
           out == IF success
                  THEN SucceededOutput(agent_name, ResultOf(agent_name, answer), Rat(8, 10))
                  ELSE FailedOutput(agent_name, "error")
       IN /\ agent_name \in RegisteredAgents
          /\ result' = Append(result, out)
          /\ request' = IF out.success
                        THEN [request EXCEPT !.input_data.context = UpdateContext(@, out.result)]
                        ELSE request
    /\ UNCHANGED <<user_profile, pc, output, first, career, score, calls, n_scored,
                   career_matches, target_career, skill_proficiency, roadmapVars, rankVars>>

\* raise ValueError(f"Agent {agent_name} not found")
RaiseNotFound ==
    /\ pc = "loop" /\ Len(result) < Len(request.agent_names)
    /\ request.agent_names[Len(result) + 1] \notin RegisteredAgents
    /\ output' = [raised |-> <<"Agent ", request.agent_names[Len(result) + 1], " not found">>]
    /\ pc' = "raised"
    /\ UNCHANGED <<user_profile, request, result, first, career, score, calls, n_scored,
                   career_matches, target_career, skill_proficiency, roadmapVars, rankVars>>

\* return results
ReturnResults ==
    /\ pc = "loop" /\ Len(result) = Len(request.agent_names)
    /\ output' = result
    /\ pc' = "done"
    /\ UNCHANGED <<user_profile, request, result, first, career, score, calls, n_scored,
                   career_matches, target_career, skill_proficiency, roadmapVars, rankVars>>

NextSequential ==
    \/ \E success \in BOOLEAN, answer \in {"x", "y"} : ExecuteAgent(success, answer)
    \/ RaiseNotFound
    \/ ReturnResults

SpecSequential == InitSequential /\ [][NextSequential]_vars

RECURSIVE ContextAfter(_, _)
\* the initial context updated with the results of the successful outputs
\* among the first k
ContextAfter(outputs, k) ==
    IF k = 0 THEN first
    ELSE LET before == ContextAfter(outputs, k - 1)
         IN IF outputs[k].success
            THEN [key \in DOMAIN before \cup DOMAIN outputs[k].result |->
                     IF key \in DOMAIN outputs[k].result THEN outputs[k].result[key]
                     ELSE before[key]]
            ELSE before

\* the outputs so far are those of the first names in order, and the context
\* the next agent sees is the initial one updated by the successful ones
RunsInOrder ==
    /\ Len(result) <= Len(request.agent_names)
    /\ \A k \in DOMAIN result : result[k].agent_name = request.agent_names[k]
    /\ request.input_data.context = ContextAfter(result, Len(result))

----------------------------------------------------------------------------
(* Phase 1 of the roadmap of a full analysis *)

AnalysedGaps == output.result.skill_gaps

ImmediateSkills == output.result.learning_roadmap.phase_1_immediate.skills

\* C29: in the roadmap of a full analysis every skill of phase 1 is a required
\* skill of the target career with a gap_score above 5.0, and a skill that the
\* career lists only as preferred is never in phase 1.
C29_PhaseOneRequired ==
    (pc = "done" /\ output.success) =>
        /\ \A k \in DOMAIN ImmediateSkills :
              /\ ImmediateSkills[k] \in LowerSet(target_career.required_skills)
              /\ \E i \in DOMAIN AnalysedGaps :
                    /\ AnalysedGaps[i].skill_name = ImmediateSkills[k]
                    /\ RLt(Num(5), AnalysedGaps[i].gap_score)
        /\ \A name \in LowerSet(target_career.preferred_skills)
                       \ LowerSet(target_career.required_skills) :
              name \notin Range(ImmediateSkills)

\* An analysis with skills in phase 1 whose target career has a skill that is
\* only preferred and that the user lacks altogether (gap_score 5.0).
C29_Witness ==
    /\ pc = "done" /\ output.success
    /\ ImmediateSkills # << >>
    /\ \E i \in DOMAIN AnalysedGaps :
          /\ AnalysedGaps[i].skill_name \notin LowerSet(target_career.required_skills)
          /\ AnalysedGaps[i].current_proficiency = Num(0)
          /\ AnalysedGaps[i].gap_score = Num(5)
          /\ AnalysedGaps[i].skill_name \notin Range(ImmediateSkills)

----------------------------------------------------------------------------
(* The experience level of the catalog query against the experience score *)

MaxExperienceYears == 50

\* variant: sixteen years still count as senior
DetermineExperienceLevel_Senior16(profile) ==
    IF profile.experience_years = 0 /\ profile.current_year <= 2 THEN Str_entry
    ELSE IF profile.experience_years <= 2 THEN Str_entry
    ELSE IF profile.experience_years <= 7 THEN Str_mid
    ELSE IF profile.experience_years <= 16 THEN Str_senior
    ELSE Str_executive

\* _determine_experience_level
DetermineExperienceLevel(profile) ==
    IF profile.experience_years = 0 /\ profile.current_year <= 2 THEN Str_entry
    ELSE IF profile.experience_years <= 2 THEN Str_entry
    ELSE IF profile.experience_years <= 7 THEN Str_mid
    ELSE IF profile.experience_years <= 15 THEN Str_senior
    ELSE Str_executive

InitLevel ==
    /\ user_profile \in [skills : {<<Str_python, Str_sql>>}, interests : {<<Str_data>>},
                         preferred_industries : {<<Str_Technology>>},
                         education_level : {Str_Bachelor},
                         experience_years : 0..MaxExperienceYears,
                         current_year : {1, 4}]
    /\ pc = "profile"
    /\ NoScoreRun /\ NoMatchRun /\ NoGapRun /\ NoRoadmapRun /\ NoRankRun

\* experience_level = self._determine_experience_level(user_profile), passed to
\* self._query_careers(..., experience_level=experience_level)
QueryWithLevel ==
    /\ pc = "profile"
    /\ request' = [experience_level |-> DetermineExperienceLevel(user_profile)]
    /\ pc' = "query"
    /\ UNCHANGED <<user_profile, output, target_career, skill_proficiency, scoreVars,
                   matchVars, roadmapVars, rankVars>>

\* match_score = await self._calculate_match_score(user_profile, career) for a
\* career of the catalog, of the queried level or not
ScoreQueried(c) ==
    /\ pc = "query"
    /\ score' = CalculateMatchScore(user_profile, c)
    /\ career' = c
    /\ calls' = calls + 1
    /\ pc' = "scored"
    /\ UNCHANGED <<user_profile, request, output, first, target_career,
                   skill_proficiency, matchVars, roadmapVars, rankVars>>

NextLevel == QueryWithLevel \/ \E c \in Careers : ScoreQueried(c)

SpecLevel == InitLevel /\ [][NextLevel]_vars

\* C30: for every experience_years in 0..50, a career whose experience_level
\* is the level returned by _determine_experience_level has an experience
\* component of 100.
C30_LevelAgreesWithRange ==
    (pc = "scored" /\ Lower(career.experience_level) = request.experience_level) =>
        score.component_scores.experience = Num(100)

\* A profile with 16 years of experience was queried as executive and scored
\* 100 on experience for an executive career.
C30_Witness ==
    /\ pc = "scored"
    /\ user_profile.experience_years = 16
    /\ request.experience_level = Str_executive
    /\ Lower(career.experience_level) = Str_executive
    /\ score.component_scores.experience = Num(100)

====
